---- MODULE Spec2Model ----
(***************************************************************************)
(* Simulation Controller of the traffic monitor backend                    *)
(* (src/backend/app/services/sumo_service.py): the process-wide            *)
(* SimulationState, its lock, and the operations start_simulation, step,   *)
(* pause_simulation, resume_simulation, stop_simulation, get_status,       *)
(* set_traffic_light_phase and set_traffic_light_program, called by        *)
(* several threads (HTTP handlers, the event stream's executor, the RL     *)
(* environment).  Every `with _state._lock:` block is split into the       *)
(* steps between its engine (TraCI) calls, so that what the lock protects  *)
(* is something the model checker decides.                                 *)
(***************************************************************************)
EXTENDS Integers, Sequences, FiniteSets, TLC

\* ------------------------------------------------------------------ bounds
NumThreads == 2
MaxStep == 2
MaxVehicles == 2

Threads == 1..NumThreads
NoThread == 0

\* ------------------------------------------------------------------ inputs
None == "None"
ExistingFiles == {"a.net.xml"}
\* Each call is a record of its operation and arguments, as call[t] keeps it.
StartArgs ==
    { [op |-> "start", network_path |-> "a.net.xml", network_id |-> "net_1"],
      [op |-> "start", network_path |-> "a.net.xml", network_id |-> "net_2"],
      [op |-> "start", network_path |-> "missing.net.xml",
       network_id |-> "net_1"] }
EngineTls == {"tl_1"}
SetPhaseArgs ==
    { [op |-> "set_phase", tl_id |-> "tl_1", phase_index |-> 0],
      [op |-> "set_phase", tl_id |-> "tl_1", phase_index |-> 1],
      [op |-> "set_phase", tl_id |-> "tl_x", phase_index |-> 0] }
SetProgramArgs ==
    { [op |-> "set_program", tl_id |-> "tl_1", program_id |-> "0"],
      [op |-> "set_program", tl_id |-> "tl_1", program_id |-> "p_x"],
      [op |-> "set_program", tl_id |-> "tl_x", program_id |-> "0"] }
EnginePhases == {0, 1}
EnginePrograms == {"0"}
WaitTimes == {0, 1}

\* ------------------------------------------------------------------ errors
ErrUnavailable == "SUMO is not available"
ErrAlreadyRunning == "Simulation already running"
ErrNetworkNotFound == "Network file not found"
ErrStartFailed == "Failed to start SUMO"
ErrNoSimulation == "No simulation running"
ErrPaused == "Simulation is paused"
ErrStepFailed == "Simulation step failed"
ErrSetPhaseFailed == "Failed to set traffic light"
ErrSetProgramFailed == "Failed to set traffic light program"

VARIABLES
    SUMO_AVAILABLE,  \* module flag set at import, never changed afterwards
    is_running, is_paused, current_step, network_id, network_path,
    lock,            \* _state._lock: the thread holding it, or NoThread
    engine,          \* the TraCI connection and the traffic lights behind it
    pc,              \* each thread's position
    call,            \* each thread's operation in progress and its arguments
    frame,           \* each thread's local variables inside an operation
    out,             \* what the step just taken returned or raised, and to whom
    ok_steps,        \* history: the step() calls of this run that returned metrics
    \* Network Reconciler (src/backend/app/services/osm_service.py)
    network_cache,   \* _network_cache: the intersections cached per network id
    net_files,       \* SIMULATION_NETWORKS_DIR: the .net.xml artifact per network id
    cv,              \* the convert_to_sumo call in progress and its locals
    cv_out,          \* what the reconciler step just taken returned or raised
    first_convert,   \* history: what the first successful convert returned
    \* Deployment Arbitrator (src/backend/app/services/deployment_service.py)
    deployments,     \* _state._deployments: the DeployedModel per traffic light
    dep_lock,        \* the registry's _state._lock: its holder, or NoThread
    loaded_model,    \* ml_service's _loaded_model_path: the inference slot
    \* the driver loop's apply_ai_action (deployment_service.py, lines 234-312)
    ap,              \* the apply_ai_action call in progress and its locals
    \* RL Environment Adapter (src/backend/app/ml/environment.py)
    env,             \* the TrafficLightEnv: its attributes and its position
    env_out,         \* what the adapter step just taken returned or raised
    wrapper,         \* the MultiScenarioEnvWrapper's attributes
    \* Metrics history (src/backend/app/services/metrics_service.py)
    history,         \* a MetricsHistory: max_size and the snapshots deque
    history_out,     \* what the get_recent just called returned
    \* Event stream (src/backend/app/api/routes/simulation.py, lines 197-250)
    stream,          \* the generator's position, its final_step, its last event
    \* Training jobs (src/backend/app/services/ml_service.py, lines 143-329)
    training,        \* _training_job, _stop_flag and the training threads
    training_out     \* what start_training or stop_training just returned

state == <<is_running, is_paused, current_step, network_id, network_path>>
osm_vars == <<network_cache, net_files, cv, cv_out, first_convert>>
\* what no operation of the controller writes
dep_vars == <<deployments, dep_lock, loaded_model>>
rl_vars == <<env, env_out, wrapper>>
\* the callers of the services, which no service operation writes
metrics_vars == <<history, history_out>>
training_vars == <<training, training_out>>
services == <<metrics_vars, stream, training_vars>>
callers == <<ap, rl_vars, services>>
outside == <<SUMO_AVAILABLE, osm_vars, dep_vars, callers>>
sim_vars == <<SUMO_AVAILABLE, is_running, is_paused, current_step, network_id,
              network_path, lock, engine, pc, call, frame, out, ok_steps>>
vars == <<sim_vars, osm_vars, dep_vars, callers>>

NoCall == [op |-> "none"]
NoFrame == [fn |-> "none"]
NoRet == [op |-> "none"]
Raised(o, msg) == [op |-> o, exc |-> msg]
Returned(o, d) == [op |-> o, exc |-> "", result |-> d]
NoOut == [thread |-> NoThread, ret |-> NoRet]

EngineClosed == [open |-> FALSE, phase |-> [tl \in EngineTls |-> 0]]
EngineFresh == [EngineClosed EXCEPT !.open = TRUE]

\* get_status's status string
Status ==
    IF is_running THEN (IF is_paused THEN "paused" ELSE "running") ELSE "idle"

\* Mutant of reset: the step counter survives the reset.
reset_KeepsStep ==
    /\ is_running' = FALSE
    /\ is_paused' = FALSE
    /\ current_step' = current_step
    /\ network_id' = None
    /\ network_path' = None

\* SimulationState.reset
reset ==
    /\ is_running' = FALSE
    /\ is_paused' = FALSE
    /\ current_step' = 0
    /\ network_id' = None
    /\ network_path' = None

\* _state = SimulationState(), and SUMO_AVAILABLE as the import left it
SimulationInit ==
    /\ SUMO_AVAILABLE \in BOOLEAN
    /\ is_running = FALSE
    /\ is_paused = FALSE
    /\ current_step = 0
    /\ network_id = None
    /\ network_path = None
    /\ lock = NoThread
    /\ engine = EngineClosed
    /\ pc = [t \in Threads |-> "idle"]
    /\ call = [t \in Threads |-> NoCall]
    /\ frame = [t \in Threads |-> NoFrame]
    /\ out = NoOut
    /\ ok_steps = 0

\* ------------------------------------------------------- leaving an operation
\* Leaving the `with` block, by return or by exception, releases the lock.
Leave(t, r) ==
    /\ pc' = [pc EXCEPT ![t] = "idle"]
    /\ call' = [call EXCEPT ![t] = NoCall]
    /\ frame' = [frame EXCEPT ![t] = NoFrame]
    /\ out' = [thread |-> t, ret |-> r]
    /\ lock' = IF lock = t THEN NoThread ELSE lock

Goto(t, p) ==
    /\ pc' = [pc EXCEPT ![t] = p]
    /\ out' = NoOut
    /\ UNCHANGED <<call, frame, lock>>

\* ------------------------------------------------------- entering an operation
\* A thread calls an operation.  The operations that begin with
\* _check_sumo_available() raise before they reach the lock.
Enter(t, c, checked) ==
    /\ pc[t] = "idle"
    /\ IF checked /\ ~SUMO_AVAILABLE
       THEN /\ out' = [thread |-> t, ret |-> Raised(c.op, ErrUnavailable)]
            /\ UNCHANGED <<pc, call>>
       ELSE /\ pc' = [pc EXCEPT ![t] = "lock"]
            /\ call' = [call EXCEPT ![t] = c]
            /\ out' = NoOut
    /\ UNCHANGED <<outside, state, lock, engine, frame, ok_steps>>

FirstPc(o) ==
    CASE o = "start" -> "start_check"
      [] o = "step" -> "step_check"
      [] o = "pause" -> "pause_body"
      [] o = "resume" -> "resume_body"
      [] o = "stop" -> "stop_read"
      [] o = "get_status" -> "status_body"
      [] o = "is_running" -> "is_running_body"
      [] o = "set_phase" -> "set_phase_check"
      [] o = "set_program" -> "set_program_check"

\* Mutant: the block is entered without waiting for the lock.
AcquireLock_NoExclusion(t) ==
    /\ pc[t] = "lock"
    /\ lock' = t
    /\ pc' = [pc EXCEPT ![t] = FirstPc(call[t].op)]
    /\ out' = NoOut
    /\ UNCHANGED <<outside, state, engine, call, frame, ok_steps>>

\* `with _state._lock:` blocks until the lock is free, then takes it.
AcquireLock(t) ==
    /\ pc[t] = "lock"
    /\ lock = NoThread
    /\ lock' = t
    /\ pc' = [pc EXCEPT ![t] = FirstPc(call[t].op)]
    /\ out' = NoOut
    /\ UNCHANGED <<outside, state, engine, call, frame, ok_steps>>

\* ------------------------------------------------------------ start_simulation
\* The gui argument only selects the binary of the command line.
start_simulation(t) ==
    \E a \in StartArgs : Enter(t, a, TRUE)

\* Mutant: the already-running check is missing.
StartCheck_NoRunningCheck(t) ==
    /\ pc[t] = "start_check"
    /\ IF call[t].network_path \notin ExistingFiles
       THEN Leave(t, Raised("start", ErrNetworkNotFound))
       ELSE Goto(t, "start_launch")
    /\ UNCHANGED <<outside, state, engine, ok_steps>>

\* Lines 100-106: the already-running check, then the network file check.
StartCheck(t) ==
    /\ pc[t] = "start_check"
    /\ IF is_running
       THEN Leave(t, Raised("start", ErrAlreadyRunning))
       ELSE IF call[t].network_path \notin ExistingFiles
            THEN Leave(t, Raised("start", ErrNetworkNotFound))
            ELSE Goto(t, "start_launch")
    /\ UNCHANGED <<outside, state, engine, ok_steps>>

\* Mutant: the state is assigned before traci.start, so a launch that raises
\* leaves it assigned.
StartLaunch_AssignFirst(t) ==
    /\ pc[t] = "start_launch"
    /\ is_running' = TRUE
    /\ is_paused' = FALSE
    /\ current_step' = 0
    /\ network_id' = call[t].network_id
    /\ network_path' = call[t].network_path
    /\ ok_steps' = 0
    /\ \/ /\ engine' = EngineFresh
          /\ Leave(t, Returned("start", [status |-> "started",
                                         network_id |-> call[t].network_id,
                                         step |-> 0]))
       \/ /\ Leave(t, Raised("start", ErrStartFailed))
          /\ UNCHANGED engine
    /\ UNCHANGED outside

\* Lines 120-132: traci.start, then the state assignments; a TraCIException
\* of traci.start is raised again as RuntimeError before any assignment.
StartLaunch(t) ==
    /\ pc[t] = "start_launch"
    /\ \/ /\ engine' = EngineFresh
          /\ is_running' = TRUE
          /\ is_paused' = FALSE
          /\ current_step' = 0
          /\ network_id' = call[t].network_id
          /\ network_path' = call[t].network_path
          /\ ok_steps' = 0
          /\ Leave(t, Returned("start", [status |-> "started",
                                         network_id |-> call[t].network_id,
                                         step |-> 0]))
       \/ /\ Leave(t, Raised("start", ErrStartFailed))
          /\ UNCHANGED <<state, engine, ok_steps>>
    /\ UNCHANGED outside

\* ------------------------------------------------------------------------ step
\* step() is called directly (HTTP handler, RL environment, step_multiple) or
\* through step_async on an executor thread.  The guard keeps current_step
\* within MaxStep.
step(t) ==
    /\ current_step + Cardinality({u \in Threads : call[u].op = "step"}) < MaxStep
    /\ Enter(t, [op |-> "step"], TRUE)

\* Mutant: the paused check is missing.
StepCheck_NoPausedCheck(t) ==
    /\ pc[t] = "step_check"
    /\ IF ~is_running
       THEN Leave(t, Raised("step", ErrNoSimulation))
       ELSE Goto(t, "step_tick")
    /\ UNCHANGED <<outside, state, engine, ok_steps>>

\* Lines 153-156.
StepCheck(t) ==
    /\ pc[t] = "step_check"
    /\ IF ~is_running
       THEN Leave(t, Raised("step", ErrNoSimulation))
       ELSE IF is_paused
            THEN Leave(t, Raised("step", ErrPaused))
            ELSE Goto(t, "step_tick")
    /\ UNCHANGED <<outside, state, engine, ok_steps>>

\* Lines 159-160: the engine tick, then the increment.
StepTick(t) ==
    /\ pc[t] = "step_tick"
    /\ \/ /\ current_step' = current_step + 1
          /\ Goto(t, "step_ids")
       \/ /\ Leave(t, Raised("step", ErrStepFailed))
          /\ UNCHANGED current_step
    /\ UNCHANGED <<outside, is_running, is_paused, network_id,
                   network_path, engine, ok_steps>>

\* Lines 163-167: the vehicle list and the accumulators.  total_speed is
\* accumulated like total_wait_time and only feeds average_speed.
StepIds(t) ==
    /\ pc[t] = "step_ids"
    /\ \/ \E n \in 0..MaxVehicles :
             /\ pc' = [pc EXCEPT ![t] = "step_loop"]
             /\ frame' = [frame EXCEPT ![t] =
                   [fn |-> "step", num_vehicles |-> n, i |-> 0,
                    total_wait_time |-> 0]]
             /\ out' = NoOut
             /\ UNCHANGED <<call, lock>>
       \/ Leave(t, Raised("step", ErrStepFailed))
    /\ UNCHANGED <<outside, state, engine, ok_steps>>

\* Lines 169-171: one iteration of the aggregation loop; either query of the
\* iteration may raise.
StepLoop(t) ==
    /\ pc[t] = "step_loop"
    /\ frame[t].i < frame[t].num_vehicles
    /\ \/ \E w \in WaitTimes :
             /\ frame' = [frame EXCEPT ![t].i = @ + 1,
                                       ![t].total_wait_time = @ + w]
             /\ out' = NoOut
             /\ UNCHANGED <<pc, call, lock>>
       \/ Leave(t, Raised("step", ErrStepFailed))
    /\ UNCHANGED <<outside, state, engine, ok_steps>>

\* Lines 173-182: the returned metrics.  The averages are quotients of the
\* fields kept here.
StepReturn(t) ==
    /\ pc[t] = "step_loop"
    /\ frame[t].i = frame[t].num_vehicles
    /\ Leave(t, Returned("step", [step |-> current_step,
                                  total_vehicles |-> frame[t].num_vehicles,
                                  total_wait_time |-> frame[t].total_wait_time]))
    /\ ok_steps' = ok_steps + 1
    /\ UNCHANGED <<outside, state, engine>>

\* ---------------------------------------------------------- pause and resume
pause_simulation(t) == Enter(t, [op |-> "pause"], FALSE)

\* Mutant: the running check is missing.
PauseBody_NoRunningCheck(t) ==
    /\ pc[t] = "pause_body"
    /\ is_paused' = TRUE
    /\ Leave(t, Returned("pause", [status |-> "paused", step |-> current_step]))
    /\ UNCHANGED <<outside, is_running, current_step, network_id,
                   network_path, engine, ok_steps>>

\* Lines 225-229.
PauseBody(t) ==
    /\ pc[t] = "pause_body"
    /\ IF ~is_running
       THEN /\ Leave(t, Raised("pause", ErrNoSimulation))
            /\ UNCHANGED is_paused
       ELSE /\ is_paused' = TRUE
            /\ Leave(t, Returned("pause", [status |-> "paused",
                                           step |-> current_step]))
    /\ UNCHANGED <<outside, is_running, current_step, network_id,
                   network_path, engine, ok_steps>>

resume_simulation(t) == Enter(t, [op |-> "resume"], FALSE)

\* Lines 244-248.
ResumeBody(t) ==
    /\ pc[t] = "resume_body"
    /\ IF ~is_running
       THEN /\ Leave(t, Raised("resume", ErrNoSimulation))
            /\ UNCHANGED is_paused
       ELSE /\ is_paused' = FALSE
            /\ Leave(t, Returned("resume", [status |-> "running",
                                            step |-> current_step]))
    /\ UNCHANGED <<outside, is_running, current_step, network_id,
                   network_path, engine, ok_steps>>

\* ------------------------------------------------------------- stop_simulation
stop_simulation(t) == Enter(t, [op |-> "stop"], FALSE)

\* Lines 260-262.
StopRead(t) ==
    /\ pc[t] = "stop_read"
    /\ pc' = [pc EXCEPT ![t] = IF is_running THEN "stop_close" ELSE "stop_reset"]
    /\ frame' = [frame EXCEPT ![t] = [fn |-> "stop", final_step |-> current_step]]
    /\ out' = NoOut
    /\ UNCHANGED <<outside, state, engine, call, lock, ok_steps>>

\* Lines 263-269: traci.close(); whatever it raises is logged and ignored.  A
\* close that raised may or may not have ended the connection.
StopClose(t) ==
    /\ pc[t] = "stop_close"
    /\ IF SUMO_AVAILABLE
       THEN \/ engine' = EngineClosed
            \/ engine' \in {engine, EngineClosed}
       ELSE UNCHANGED engine
    /\ Goto(t, "stop_reset")
    /\ UNCHANGED <<outside, state, ok_steps>>

\* Lines 271-272.
StopReset(t) ==
    /\ pc[t] = "stop_reset"
    /\ reset
    /\ ok_steps' = 0
    /\ Leave(t, Returned("stop", [status |-> "stopped",
                                  final_step |-> frame[t].final_step]))
    /\ UNCHANGED <<outside, engine>>

\* ------------------------------------------------------------------ get_status
get_status(t) == Enter(t, [op |-> "get_status"], FALSE)

\* Lines 286-295.
StatusBody(t) ==
    /\ pc[t] = "status_body"
    /\ Leave(t, Returned("get_status", [status |-> Status,
                                        step |-> current_step,
                                        network_id |-> network_id,
                                        sumo_available |-> SUMO_AVAILABLE]))
    /\ UNCHANGED <<outside, state, engine, ok_steps>>

\* ------------------------------------------------------- is_simulation_running
is_simulation_running(t) == Enter(t, [op |-> "is_running"], FALSE)

\* Lines 554-555.
IsRunningBody(t) ==
    /\ pc[t] = "is_running_body"
    /\ Leave(t, Returned("is_running", is_running))
    /\ UNCHANGED <<outside, state, engine, ok_steps>>

\* ------------------------------------------------------ set_traffic_light_phase
set_traffic_light_phase(t) ==
    \E a \in SetPhaseArgs : Enter(t, a, TRUE)

\* Mutant: the running check is missing.
SetPhaseCheck_NoRunningCheck(t) ==
    /\ pc[t] = "set_phase_check"
    /\ Goto(t, "set_phase_engine")
    /\ UNCHANGED <<outside, state, engine, ok_steps>>

\* Lines 316-317.
SetPhaseCheck(t) ==
    /\ pc[t] = "set_phase_check"
    /\ IF ~is_running
       THEN Leave(t, Raised("set_phase", ErrNoSimulation))
       ELSE Goto(t, "set_phase_engine")
    /\ UNCHANGED <<outside, state, engine, ok_steps>>

\* Lines 320-326: setPhase, then getPhase.  The engine raises for a traffic
\* light or a phase it does not have, and either call may raise otherwise
\* (getPhase after setPhase took effect).
SetPhaseEngine(t) ==
    /\ pc[t] = "set_phase_engine"
    /\ LET tl == call[t].tl_id
           ph == call[t].phase_index
           known == tl \in EngineTls /\ ph \in EnginePhases
       IN \/ /\ known
             /\ engine' = [engine EXCEPT !.phase[tl] = ph]
             /\ Leave(t, Returned("set_phase", [tl_id |-> tl, phase |-> ph]))
          \/ /\ known
             /\ engine' = [engine EXCEPT !.phase[tl] = ph]
             /\ Leave(t, Raised("set_phase", ErrSetPhaseFailed))
          \/ /\ UNCHANGED engine
             /\ Leave(t, Raised("set_phase", ErrSetPhaseFailed))
    /\ UNCHANGED <<outside, state, ok_steps>>

\* ---------------------------------------------------- set_traffic_light_program
set_traffic_light_program(t) ==
    \E a \in SetProgramArgs : Enter(t, a, TRUE)

\* Lines 347-348.
SetProgramCheck(t) ==
    /\ pc[t] = "set_program_check"
    /\ IF ~is_running
       THEN Leave(t, Raised("set_program", ErrNoSimulation))
       ELSE Goto(t, "set_program_engine")
    /\ UNCHANGED <<outside, state, engine, ok_steps>>

\* Lines 350-357: setProgram, then getProgram.  The programs of a traffic
\* light are fixed by the network; the engine raises for a traffic light or a
\* program it does not have, and either call may raise otherwise.
SetProgramEngine(t) ==
    /\ pc[t] = "set_program_engine"
    /\ LET tl == call[t].tl_id
           pr == call[t].program_id
           known == tl \in EngineTls /\ pr \in EnginePrograms
       IN \/ /\ known
             /\ Leave(t, Returned("set_program", [tl_id |-> tl, program |-> pr]))
          \/ Leave(t, Raised("set_program", ErrSetProgramFailed))
    /\ UNCHANGED <<outside, state, engine, ok_steps>>

\* ======================================================= Network Reconciler
\* src/backend/app/services/osm_service.py: extract_network caches the
\* intersections of a network, convert_to_sumo produces (or reuses) the
\* network artifact, parses its traffic lights and matches them to the cached
\* intersections.  Latitudes and longitudes are in thousandths of a degree,
\* and distances are compared as exact fractions.

\* ------------------------------------------------------------------ bounds
MaxLights == 2
MaxIntersections == 2

\* COORD_MATCH_THRESHOLD_DEG = 0.001, in thousandths of a degree
COORD_MATCH_THRESHOLD_DEG == 1
\* the scale 1.0 (degree per converted unit) of a boundary without extent
UnitScale == 1000

NetworkIds == {"net_1"}
\* the empty dict; a dict is a function on its keys
EmptyDict == [key \in {} |-> None]
TlIds == {"tl_a", "tl_b"}
\* <junction type="traffic_light"> elements of the artifacts: id -> (x, y)
JunctionCoords == [j \in TlIds |-> IF j = "tl_a" THEN <<4, 4>> ELSE <<5, 4>>]
\* where the source's intersections lie: <<lon, lat>>
Positions == {<<2, 2>>, <<3, 2>>, <<102, 2>>}

\* one comma-separated part of a boundary attribute: a number or not
Num(v) == [ok |-> TRUE, v |-> v]
NotNum == [ok |-> FALSE, v |-> 0]
Boundary(w, s, e, n) == <<Num(w), Num(s), Num(e), Num(n)>>
OrigBoundaries ==
    { <<>>, <<Num(0), Num(0), Num(4)>>, <<Num(0), Num(0), NotNum, Num(4)>>,
      Boundary(0, 0, 4, 4) }
ConvBoundaries ==
    { <<>>, <<Num(0), Num(0), Num(8)>>, Boundary(0, 0, 8, 8),
      Boundary(0, 0, 0, 8) }
\* the <location> element of an artifact, or NoLocation when it has none
NoLocation == [found |-> FALSE]
Locations ==
    {NoLocation} \cup
    { [origBoundary |-> o, convBoundary |-> c] :
        <<o, c>> \in (OrigBoundaries \X {Boundary(0, 0, 8, 8)})
                     \cup ({Boundary(0, 0, 4, 4)} \X ConvBoundaries) }

SeqsUpTo(S, n) == UNION { [1..k -> S] : k \in 0..n }

\* what netconvert can write: the ids of the <tlLogic> elements in document
\* order (one element per program, so an id can occur more than once) and
\* the <location> element; or a file that is no well-formed XML
NotXml == [xml |-> FALSE]
Artifacts ==
    {NotXml} \cup
    { [xml |-> TRUE, tlLogic |-> l, location |-> loc] :
        l \in SeqsUpTo(TlIds, MaxLights), loc \in Locations }

\* what extract_network can find: the node id is the listing position
IntersectionLists ==
    { [i \in DOMAIN p |-> [id |-> i, lon |-> p[i][1], lat |-> p[i][2],
                        has_traffic_light |-> h[i]]] :
        <<p, h>> \in UNION { [1..k -> Positions] \X [1..k -> BOOLEAN] :
                              k \in 0..MaxIntersections } }

\* ---------------------------------------------------------------- parsing
\* parse_sumo_traffic_lights: one record per <tlLogic>, with the coordinates
\* of the junction of the same id, (0.0, 0.0) when there is none
parse_sumo_traffic_lights(file) ==
    IF ~file.xml THEN <<>>
    ELSE [k \in DOMAIN file.tlLogic |->
            LET tl_id == file.tlLogic[k]
                xy == IF tl_id \in DOMAIN JunctionCoords
                      THEN JunctionCoords[tl_id] ELSE <<0, 0>>
            IN  [id |-> tl_id, x |-> xy[1], y |-> xy[2]]]

\* the first part of _match_osm_to_sumo_traffic_lights: TRUE when it goes on
\* to match, FALSE on each path that returns {} (no <location>, an empty
\* boundary attribute, one that has not four parts, a part float() rejects,
\* a file ET.parse rejects)
HasProjection(file) ==
    /\ file.xml
    /\ file.location # NoLocation
    /\ file.location.origBoundary # <<>>
    /\ Len(file.location.origBoundary) = 4
    /\ \A i \in 1..4 : file.location.origBoundary[i].ok
    /\ file.location.convBoundary # <<>>
    /\ Len(file.location.convBoundary) = 4
    /\ \A i \in 1..4 : file.location.convBoundary[i].ok

\* lon_scale and lat_scale, as fractions n/d
lon_scale(loc) ==
    LET o == loc.origBoundary
        c == loc.convBoundary
    IN  IF c[3].v # c[1].v
        THEN [n |-> o[3].v - o[1].v, d |-> c[3].v - c[1].v]
        ELSE [n |-> UnitScale, d |-> 1]

lat_scale(loc) ==
    LET o == loc.origBoundary
        c == loc.convBoundary
    IN  IF c[4].v # c[2].v
        THEN [n |-> o[4].v - o[2].v, d |-> c[4].v - c[2].v]
        ELSE [n |-> UnitScale, d |-> 1]

\* distance ** 2 between an intersection and the reverse projection
\*   approx_lon = orig_west + (sumo_x - conv_west) * lon_scale
\*   approx_lat = orig_south + (sumo_y - conv_south) * lat_scale
\* of a light, times Denominator(loc)
Distance2(loc, sumo_tl, intersection) ==
    LET ls == lon_scale(loc)
        ts == lat_scale(loc)
        dlon == (intersection.lon - loc.origBoundary[1].v) * ls.d
                - (sumo_tl.x - loc.convBoundary[1].v) * ls.n
        dlat == (intersection.lat - loc.origBoundary[2].v) * ts.d
                - (sumo_tl.y - loc.convBoundary[2].v) * ts.n
    IN  dlon * dlon * ts.d * ts.d + dlat * dlat * ls.d * ls.d

Denominator(loc) ==
    lon_scale(loc).d * lon_scale(loc).d * lat_scale(loc).d * lat_scale(loc).d

\* distance < COORD_MATCH_THRESHOLD_DEG
BelowThreshold(loc, d2) ==
    d2 < COORD_MATCH_THRESHOLD_DEG * COORD_MATCH_THRESHOLD_DEG * Denominator(loc)

\* BestMatch replacing the best match at an equal distance too
RECURSIVE BestMatch_LastWins(_, _, _, _, _, _)
BestMatch_LastWins(loc, sumo_tl, intersections, map, i, best) ==
    IF i > Len(intersections) THEN best
    ELSE LET it == intersections[i]
             d2 == Distance2(loc, sumo_tl, it)
         IN  IF ~it.has_traffic_light \/ it.id \in DOMAIN map
             THEN BestMatch_LastWins(loc, sumo_tl, intersections, map, i + 1, best)
             ELSE IF best.distance = -1 \/ d2 <= best.distance
                  THEN BestMatch_LastWins(loc, sumo_tl, intersections, map, i + 1,
                                          [match |-> i, distance |-> d2])
                  ELSE BestMatch_LastWins(loc, sumo_tl, intersections, map, i + 1,
                                          best)

\* the loop over tl_intersections for one light: best_match (a listing
\* position, 0 for None) and best_distance (squared; -1 for infinity) after
\* the intersections from position i on
RECURSIVE BestMatch(_, _, _, _, _, _)
BestMatch(loc, sumo_tl, intersections, map, i, best) ==
    IF i > Len(intersections) THEN best
    ELSE LET it == intersections[i]
             d2 == Distance2(loc, sumo_tl, it)
         IN  IF ~it.has_traffic_light \/ it.id \in DOMAIN map
             THEN BestMatch(loc, sumo_tl, intersections, map, i + 1, best)
             ELSE IF best.distance = -1 \/ d2 < best.distance
                  THEN BestMatch(loc, sumo_tl, intersections, map, i + 1,
                                 [match |-> i, distance |-> d2])
                  ELSE BestMatch(loc, sumo_tl, intersections, map, i + 1, best)

NoBest == [match |-> 0, distance |-> -1]

\* ------------------------------------------------------------- operations
ErrNotInCache == "not found in cache. Extract the network first."
ErrDownloadFailed == "Failed to download OSM network"
ErrNetconvertFailed == "netconvert failed with code"
ErrNetconvertTimeout == "netconvert timed out after 5 minutes"
ErrNetconvertNotFound == "netconvert not found"
ErrNoProjection == "Failed to parse SUMO network location"

CvIdle ==
    [pc |-> "idle", network_id |-> None, traffic_lights |-> <<>>,
     projection |-> FALSE, k |-> 0, osm_to_sumo_map |-> EmptyDict,
     matches |-> <<>>]
NoFirst == [done |-> FALSE, again |-> FALSE, result |-> None]

\* str(output_path)
OutputPath(n) == <<"SIMULATION_NETWORKS_DIR", n, ".net.xml">>

\* the process starts with an empty cache; the networks directory holds what
\* earlier processes left there
OsmInit ==
    /\ network_cache = EmptyDict
    /\ net_files \in UNION { [N -> Artifacts] : N \in SUBSET NetworkIds }
    /\ cv = CvIdle
    /\ cv_out = NoRet
    /\ first_convert = [n \in NetworkIds |-> NoFirst]

\* the reconciler before any request, with an empty networks directory
OsmQuiet ==
    /\ network_cache = EmptyDict
    /\ net_files = EmptyDict
    /\ cv = CvIdle
    /\ cv_out = NoRet
    /\ first_convert = [n \in NetworkIds |-> NoFirst]

\* extract_network(bbox), n the id that _generate_network_id gives the bbox
extract_network(n) ==
    /\ IF n \in DOMAIN network_cache
       THEN /\ cv_out' = Returned("extract_network", network_cache[n])
            /\ UNCHANGED network_cache
       ELSE \/ /\ cv_out' = Raised("extract_network", ErrDownloadFailed)
               /\ UNCHANGED network_cache
            \/ \E intersections \in IntersectionLists :
                  /\ network_cache' = (n :> intersections) @@ network_cache
                  /\ cv_out' = Returned("extract_network", intersections)
    /\ UNCHANGED <<net_files, cv, first_convert, sim_vars, dep_vars, callers>>

\* Mutant of get_intersections: an unknown network has no intersections.
get_intersections_EmptyForUnknown(n) ==
    /\ cv.pc = "idle"
    /\ cv_out' = Returned("get_intersections",
                          IF n \in DOMAIN network_cache
                          THEN network_cache[n] ELSE <<>>)
    /\ UNCHANGED <<network_cache, net_files, cv, first_convert, sim_vars,
                   dep_vars, callers>>

\* get_intersections(network_id), lines 179-182
get_intersections(n) ==
    /\ cv.pc = "idle"
    /\ cv_out' = IF n \in DOMAIN network_cache
                 THEN Returned("get_intersections", network_cache[n])
                 ELSE Raised("get_intersections", ErrNotInCache)
    /\ UNCHANGED <<network_cache, net_files, cv, first_convert, sim_vars,
                   dep_vars, callers>>

\* parse_sumo_traffic_lights and the beginning of
\* _match_osm_to_sumo_traffic_lights, on the artifact at output_path
BeginMatch_RaiseWithoutProjection(n, file) ==
    IF HasProjection(file)
    THEN /\ cv' = [pc |-> "match", network_id |-> n,
                   traffic_lights |-> parse_sumo_traffic_lights(file),
                   projection |-> TRUE, k |-> 1,
                   osm_to_sumo_map |-> EmptyDict, matches |-> <<>>]
         /\ cv_out' = NoRet
    ELSE /\ cv' = CvIdle
         /\ cv_out' = Raised("convert_to_sumo", ErrNoProjection)

BeginMatch(n, file) ==
    /\ cv' = [pc |-> "match", network_id |-> n,
              traffic_lights |-> parse_sumo_traffic_lights(file),
              projection |-> HasProjection(file), k |-> 1,
              osm_to_sumo_map |-> EmptyDict, matches |-> <<>>]
    /\ cv_out' = NoRet

\* convert_to_sumo running the tool whether or not the artifact exists
convert_to_sumo_AlwaysConvert(n) ==
    /\ cv.pc = "idle"
    /\ IF n \notin DOMAIN network_cache
       THEN /\ cv_out' = Raised("convert_to_sumo", ErrNotInCache)
            /\ UNCHANGED cv
       ELSE /\ cv' = [CvIdle EXCEPT !.pc = "netconvert", !.network_id = n]
            /\ cv_out' = NoRet
    /\ UNCHANGED <<network_cache, net_files, first_convert, sim_vars, dep_vars, callers>>

\* convert_to_sumo(network_id), up to the existing artifact or the tool
convert_to_sumo(n) ==
    /\ cv.pc = "idle"
    /\ IF n \notin DOMAIN network_cache
       THEN /\ cv_out' = Raised("convert_to_sumo", ErrNotInCache)
            /\ UNCHANGED cv
       ELSE IF n \in DOMAIN net_files
            THEN BeginMatch(n, net_files[n])
            ELSE /\ cv' = [CvIdle EXCEPT !.pc = "netconvert", !.network_id = n]
                 /\ cv_out' = NoRet
    /\ UNCHANGED <<network_cache, net_files, first_convert, sim_vars, dep_vars, callers>>

\* subprocess.run(netconvert ...): a non-zero return code, a timeout (the
\* killed tool may leave a truncated file behind), no such executable, or an
\* artifact at output_path
Netconvert ==
    /\ cv.pc = "netconvert"
    /\ \/ /\ \E e \in {ErrNetconvertFailed, ErrNetconvertNotFound} :
                cv_out' = Raised("convert_to_sumo", e)
          /\ cv' = CvIdle
          /\ UNCHANGED net_files
       \/ /\ cv_out' = Raised("convert_to_sumo", ErrNetconvertTimeout)
          /\ cv' = CvIdle
          /\ \/ UNCHANGED net_files
             \/ net_files' = (cv.network_id :> NotXml) @@ net_files
       \/ \E file \in Artifacts :
             /\ net_files' = (cv.network_id :> file) @@ net_files
             /\ BeginMatch(cv.network_id, file)
    /\ UNCHANGED <<network_cache, first_convert, sim_vars, dep_vars, callers>>

\* MatchLight accepting a best match at the threshold as well
MatchLight_AtThreshold ==
    /\ cv.pc = "match"
    /\ cv.projection
    /\ cv.k <= Len(cv.traffic_lights)
    /\ LET loc == net_files[cv.network_id].location
           sumo_tl == cv.traffic_lights[cv.k]
           intersections == network_cache[cv.network_id]
           best == BestMatch(loc, sumo_tl, intersections, cv.osm_to_sumo_map,
                             1, NoBest)
       IN  IF best.match # 0 /\ BelowThreshold(loc, best.distance - 1)
           THEN cv' = [cv EXCEPT
                         !.k = @ + 1,
                         !.osm_to_sumo_map =
                             (intersections[best.match].id :> sumo_tl.id) @@ @,
                         !.matches = Append(@, [k |-> cv.k,
                                                osm |-> intersections[best.match].id,
                                                tl |-> sumo_tl.id])]
           ELSE cv' = [cv EXCEPT !.k = @ + 1]
    /\ cv_out' = NoRet
    /\ UNCHANGED <<network_cache, net_files, first_convert, sim_vars, dep_vars, callers>>

\* one round of `for sumo_tl in sumo_traffic_lights`
MatchLight ==
    /\ cv.pc = "match"
    /\ cv.projection
    /\ cv.k <= Len(cv.traffic_lights)
    /\ LET loc == net_files[cv.network_id].location
           sumo_tl == cv.traffic_lights[cv.k]
           intersections == network_cache[cv.network_id]
           best == BestMatch(loc, sumo_tl, intersections, cv.osm_to_sumo_map,
                             1, NoBest)
       IN  IF best.match # 0 /\ BelowThreshold(loc, best.distance)
           THEN cv' = [cv EXCEPT
                         !.k = @ + 1,
                         !.osm_to_sumo_map =
                             (intersections[best.match].id :> sumo_tl.id) @@ @,
                         !.matches = Append(@, [k |-> cv.k,
                                                osm |-> intersections[best.match].id,
                                                tl |-> sumo_tl.id])]
           ELSE cv' = [cv EXCEPT !.k = @ + 1]
    /\ cv_out' = NoRet
    /\ UNCHANGED <<network_cache, net_files, first_convert, sim_vars, dep_vars, callers>>

\* convert_to_sumo's return
ConvertReturn ==
    /\ cv.pc = "match"
    /\ ~cv.projection \/ cv.k > Len(cv.traffic_lights)
    /\ LET n == cv.network_id
           result == [network_path |-> OutputPath(n),
                      traffic_lights |-> cv.traffic_lights,
                      osm_to_sumo_tl_map |-> cv.osm_to_sumo_map]
       IN  /\ cv_out' = Returned("convert_to_sumo", result)
           /\ first_convert' =
                 [first_convert EXCEPT
                    ![n] = IF @.done THEN [@ EXCEPT !.again = TRUE]
                           ELSE [done |-> TRUE, again |-> FALSE,
                                 result |-> result]]
    /\ cv' = CvIdle
    /\ UNCHANGED <<network_cache, net_files, sim_vars, dep_vars, callers>>


\* ===================================================== Deployment Arbitrator
\* src/backend/app/services/deployment_service.py: the registry of deployed
\* models with its lock, the inference slot of ml_service that deploy_model
\* loads and undeploy_model unloads, and the manual phase request of
\* src/backend/app/api/routes/control.py, which asks the registry before it
\* calls the Simulation Controller.

\* ------------------------------------------------------------------ bounds
NumClients == 1

Clients == 1..NumClients
DeployTls == {"tl_1", "tl_2"}
\* the model files on disk; BadModels are those DQN.load and PPO.load reject
ModelFiles == {"m_dqn_a.zip", "m_dqn_b.zip", "m_bad.zip"}
BadModels == {"m_bad.zip"}
DeployArgs ==
    { [op |-> "deploy", model_path |-> "m_dqn_a.zip", tl_id |-> "tl_1"],
      [op |-> "deploy", model_path |-> "m_dqn_b.zip", tl_id |-> "tl_1"],
      [op |-> "deploy", model_path |-> "m_dqn_b.zip", tl_id |-> "tl_2"],
      [op |-> "deploy", model_path |-> "m_bad.zip", tl_id |-> "tl_2"],
      [op |-> "deploy", model_path |-> "m_gone.zip", tl_id |-> "tl_2"] }
UndeployArgs == { [op |-> "undeploy", tl_id |-> tl] : tl \in DeployTls }
ToggleArgs ==
    { [op |-> "toggle", tl_id |-> tl, enabled |-> e] :
         tl \in DeployTls, e \in BOOLEAN }
PhaseRequests ==
    { [tl_id |-> "tl_1", phase |-> 1], [tl_id |-> "tl_2", phase |-> 0] }

\* The .metadata.json files next to the model files: model a was trained on
\* one lane and two phases, model b has no metadata file.
MetadataFiles ==
    "m_dqn_a.zip" :> [controlled_lanes |-> <<"lane_1">>, num_phases |-> 2]
\* get_model_metadata and the defaults deploy_model takes without it
get_model_metadata(model_path) ==
    IF model_path \in DOMAIN MetadataFiles
    THEN MetadataFiles[model_path]
    ELSE [controlled_lanes |-> <<>>, num_phases |-> 4]

ErrAlreadyControlled == "is already controlled by a deployed model"
ErrNoDeployedModel == "has no deployed model"
ErrModelFileNotFound == "Model file not found"
ErrUnknownFormat == "Could not load model. Unknown format"
ErrAiControlActive == "AI_CONTROL_ACTIVE"

\* what no operation of the registry writes
beyond_registry ==
    <<SUMO_AVAILABLE, state, lock, engine, frame, ok_steps, osm_vars, callers>>

\* _state = DeploymentServiceState() and ml_service's MLServiceState()
DepInit ==
    /\ deployments = EmptyDict
    /\ dep_lock = NoThread
    /\ loaded_model = None

\* is_ai_controlling(tl_id), between its `with _state._lock:` and its return
is_ai_controlling(tl_id) ==
    IF tl_id \notin DOMAIN deployments THEN FALSE
    ELSE deployments[tl_id].ai_control_enabled

\* Leaving a registry operation, by return or by exception, releases its lock.
DepLeave(t, r) ==
    /\ pc' = [pc EXCEPT ![t] = "idle"]
    /\ call' = [call EXCEPT ![t] = NoCall]
    /\ out' = [thread |-> t, ret |-> r]
    /\ dep_lock' = NoThread

\* a client calls a registry operation and reaches its `with _state._lock:`
DepEnter(t, c) ==
    /\ pc[t] = "idle"
    /\ pc' = [pc EXCEPT ![t] = "dep_lock"]
    /\ call' = [call EXCEPT ![t] = c]
    /\ out' = NoOut
    /\ UNCHANGED <<dep_vars, beyond_registry>>

DepFirstPc(o) ==
    CASE o = "deploy" -> "deploy_check"
      [] o = "undeploy" -> "undeploy_body"
      [] o = "toggle" -> "toggle_body"

\* `with _state._lock:` of the registry
AcquireDepLock(t) ==
    /\ pc[t] = "dep_lock"
    /\ dep_lock = NoThread
    /\ dep_lock' = t
    /\ pc' = [pc EXCEPT ![t] = DepFirstPc(call[t].op)]
    /\ out' = NoOut
    /\ UNCHANGED <<deployments, loaded_model, call, beyond_registry>>

\* --------------------------------------------------------------- deploy_model
deploy_model(t) ==
    \E a \in DeployArgs : DepEnter(t, a)

\* DeployCheck without the refusal of a light that has a deployment
DeployCheck_NoConflictCheck(t) ==
    /\ pc[t] = "deploy_check"
    /\ pc' = [pc EXCEPT ![t] = "deploy_load"]
    /\ out' = NoOut
    /\ UNCHANGED <<call, dep_lock>>
    /\ UNCHANGED <<deployments, loaded_model, beyond_registry>>

\* Lines 83-84: a light that has a deployment is refused.
DeployCheck(t) ==
    /\ pc[t] = "deploy_check"
    /\ IF call[t].tl_id \in DOMAIN deployments
       THEN DepLeave(t, Raised("deploy", ErrAlreadyControlled))
       ELSE /\ pc' = [pc EXCEPT ![t] = "deploy_load"]
            /\ out' = NoOut
            /\ UNCHANGED <<call, dep_lock>>
    /\ UNCHANGED <<deployments, loaded_model, beyond_registry>>

\* Line 93, ml_service.load_model: FileNotFoundError for a path that does
\* not exist, an exception of the loader for a file it rejects, else the
\* model replaces whatever the slot held.
DeployLoad(t) ==
    /\ pc[t] = "deploy_load"
    /\ IF call[t].model_path \notin ModelFiles
       THEN /\ DepLeave(t, Raised("deploy", ErrModelFileNotFound))
            /\ UNCHANGED loaded_model
       ELSE IF call[t].model_path \in BadModels
            THEN /\ DepLeave(t, Raised("deploy", ErrUnknownFormat))
                 /\ UNCHANGED loaded_model
            ELSE /\ loaded_model' = call[t].model_path
                 /\ pc' = [pc EXCEPT ![t] = "deploy_register"]
                 /\ out' = NoOut
                 /\ UNCHANGED <<call, dep_lock>>
    /\ UNCHANGED <<deployments, beyond_registry>>

\* Lines 96-117: the DeployedModel, with ai_control_enabled = True, is put
\* into the registry.  Its controlled_lanes and num_phases are those of the
\* metadata read at lines 86-89.
DeployRegister(t) ==
    /\ pc[t] = "deploy_register"
    /\ deployments' =
          (call[t].tl_id :>
              [tl_id |-> call[t].tl_id,
               model_path |-> call[t].model_path,
               ai_control_enabled |-> TRUE,
               controlled_lanes |->
                   get_model_metadata(call[t].model_path).controlled_lanes,
               num_phases |->
                   get_model_metadata(call[t].model_path).num_phases])
          @@ deployments
    /\ DepLeave(t, Returned("deploy", [status |-> "deployed",
                                       tl_id |-> call[t].tl_id,
                                       model_path |-> call[t].model_path]))
    /\ UNCHANGED <<loaded_model, beyond_registry>>

\* ------------------------------------------------------------- undeploy_model
undeploy_model(t) ==
    \E a \in UndeployArgs : DepEnter(t, a)

\* UndeployBody unloading the slot whatever remains in the registry
UndeployBody_AlwaysUnload(t) ==
    /\ pc[t] = "undeploy_body"
    /\ LET tl == call[t].tl_id
           rest == [x \in DOMAIN deployments \ {tl} |-> deployments[x]]
       IN  IF tl \notin DOMAIN deployments
           THEN /\ DepLeave(t, Raised("undeploy", ErrNoDeployedModel))
                /\ UNCHANGED <<deployments, loaded_model>>
           ELSE /\ deployments' = rest
                /\ loaded_model' = None
                /\ DepLeave(t, Returned("undeploy",
                                        [status |-> "undeployed",
                                         tl_id |-> tl,
                                         model_path |-> deployments[tl].model_path]))
    /\ UNCHANGED beyond_registry

\* Lines 133-148: pop the deployment; ml_service.unload_model() if that
\* leaves the registry empty.
UndeployBody(t) ==
    /\ pc[t] = "undeploy_body"
    /\ LET tl == call[t].tl_id
           rest == [x \in DOMAIN deployments \ {tl} |-> deployments[x]]
       IN  IF tl \notin DOMAIN deployments
           THEN /\ DepLeave(t, Raised("undeploy", ErrNoDeployedModel))
                /\ UNCHANGED <<deployments, loaded_model>>
           ELSE /\ deployments' = rest
                /\ loaded_model' = IF DOMAIN rest = {} THEN None
                                   ELSE loaded_model
                /\ DepLeave(t, Returned("undeploy",
                                        [status |-> "undeployed",
                                         tl_id |-> tl,
                                         model_path |-> deployments[tl].model_path]))
    /\ UNCHANGED beyond_registry

\* ---------------------------------------------------------- toggle_ai_control
toggle_ai_control(t) ==
    \E a \in ToggleArgs : DepEnter(t, a)

\* ToggleBody writing the flag of every deployment
ToggleBody_EveryLight(t) ==
    /\ pc[t] = "toggle_body"
    /\ LET tl == call[t].tl_id
       IN  IF tl \notin DOMAIN deployments
           THEN /\ DepLeave(t, Raised("toggle", ErrNoDeployedModel))
                /\ UNCHANGED deployments
           ELSE /\ deployments' =
                      [x \in DOMAIN deployments |->
                          [deployments[x] EXCEPT
                              !.ai_control_enabled = call[t].enabled]]
                /\ DepLeave(t, Returned("toggle",
                                        [tl_id |-> tl,
                                         ai_control_enabled |-> call[t].enabled]))
    /\ UNCHANGED <<loaded_model, beyond_registry>>

\* Lines 222-231.
ToggleBody(t) ==
    /\ pc[t] = "toggle_body"
    /\ LET tl == call[t].tl_id
       IN  IF tl \notin DOMAIN deployments
           THEN /\ DepLeave(t, Raised("toggle", ErrNoDeployedModel))
                /\ UNCHANGED deployments
           ELSE /\ deployments' =
                      [deployments EXCEPT
                          ![tl].ai_control_enabled = call[t].enabled]
                /\ DepLeave(t, Returned("toggle",
                                        [tl_id |-> tl,
                                         ai_control_enabled |-> call[t].enabled]))
    /\ UNCHANGED <<loaded_model, beyond_registry>>

\* ------------------------------------------- POST /traffic-lights/{tl_id}/phase
\* the manual phase request without the question to the registry
manual_set_phase_NoVeto(t) ==
    /\ pc[t] = "idle"
    /\ dep_lock = NoThread
    /\ \E r \in PhaseRequests :
          Enter(t, [op |-> "set_phase", tl_id |-> r.tl_id,
                    phase_index |-> r.phase], TRUE)

\* control.py, lines 76-86: is_ai_controlling(tl_id), which waits for the
\* registry's lock and gives it back, answers 409 for a light under AI
\* control; otherwise the request calls set_traffic_light_phase.
manual_set_phase(t) ==
    /\ pc[t] = "idle"
    /\ dep_lock = NoThread
    /\ \E r \in PhaseRequests :
          IF is_ai_controlling(r.tl_id)
          THEN /\ out' = [thread |-> t,
                          ret |-> [op |-> "manual_set_phase",
                                   exc |-> ErrAiControlActive,
                                   tl_id |-> r.tl_id]]
               /\ UNCHANGED <<pc, call, dep_vars, beyond_registry>>
          ELSE Enter(t, [op |-> "set_phase", tl_id |-> r.tl_id,
                         phase_index |-> r.phase], TRUE)


\* ------------------------------------------------ apply_ai_action (driver loop)
\* The driver loop is one more thread: it calls apply_ai_action once per
\* control interval, beside the clients of the registry and of the controller.
Driver == NumClients + 1
\* the client thread that works beside the driver loop: the registry and the
\* controller each have one lock, so a wait-for cycle takes two threads
Operator == 1
\* what the loaded model may predict
ModelActions == {0, 1}

ErrNotDeployed == "is not deployed"
ErrNoModelLoaded == "No model loaded. Call load_model first."

ApIdle == [pc |-> "idle"]
ApplyQuiet == ap = ApIdle

\* what no step of apply_ai_action writes
beyond_apply ==
    <<SUMO_AVAILABLE, state, pc, call, frame, ok_steps, deployments,
      loaded_model, osm_vars, rl_vars, services>>

\* n zeros: np.zeros(n)
zeros(n) == [k \in 1..n |-> 0]

\* apply_ai_action leaving by an exception
ApRaise(msg) ==
    /\ ap' = ApIdle
    /\ out' = [thread |-> Driver, ret |-> Raised("apply", msg)]

\* apply_ai_action(tl_id) is called and reaches the `with _state._lock:` of
\* get_observation_for_tl (line 243).
apply_ai_action ==
    /\ ap.pc = "idle"
    /\ \E tl \in DeployTls : ap' = [pc |-> "obs_lock", tl_id |-> tl]
    /\ out' = NoOut
    /\ UNCHANGED <<lock, dep_lock, engine, beyond_apply>>

ObsLock ==
    /\ ap.pc = "obs_lock"
    /\ dep_lock = NoThread
    /\ dep_lock' = Driver
    /\ ap' = [ap EXCEPT !.pc = "obs_copy"]
    /\ out' = NoOut
    /\ UNCHANGED <<lock, engine, beyond_apply>>

\* ObsCopy going on with the registry lock still held
ObsCopy_KeepLock ==
    /\ ap.pc = "obs_copy"
    /\ IF ap.tl_id \notin DOMAIN deployments
       THEN /\ ApRaise(ErrNotDeployed)
            /\ dep_lock' = NoThread
       ELSE /\ ap' = [pc |-> "obs_engine", tl_id |-> ap.tl_id,
                      controlled_lanes |->
                          deployments[ap.tl_id].controlled_lanes,
                      num_phases |-> deployments[ap.tl_id].num_phases]
            /\ out' = NoOut
            /\ UNCHANGED dep_lock
    /\ UNCHANGED <<lock, engine, beyond_apply>>

\* Lines 244-249, and the end of the `with` block: the deployment is looked
\* up, its controlled_lanes and num_phases are copied, the lock is released.
ObsCopy ==
    /\ ap.pc = "obs_copy"
    /\ dep_lock' = NoThread
    /\ IF ap.tl_id \notin DOMAIN deployments
       THEN ApRaise(ErrNotDeployed)
       ELSE /\ ap' = [pc |-> "obs_engine", tl_id |-> ap.tl_id,
                      controlled_lanes |->
                          deployments[ap.tl_id].controlled_lanes,
                      num_phases |-> deployments[ap.tl_id].num_phases]
            /\ out' = NoOut
    /\ UNCHANGED <<lock, engine, beyond_apply>>

\* Lines 251-259: without the engine the observation is all zeros; with it
\* the two lists start empty.
ObsEngine ==
    /\ ap.pc = "obs_engine"
    /\ IF ~SUMO_AVAILABLE
       THEN ap' = [pc |-> "predict", tl_id |-> ap.tl_id,
                   controlled_lanes |-> ap.controlled_lanes,
                   num_phases |-> ap.num_phases,
                   observation |->
                       zeros(Len(ap.controlled_lanes) * 2 + ap.num_phases)]
       ELSE ap' = [pc |-> "obs_lane", tl_id |-> ap.tl_id,
                   controlled_lanes |-> ap.controlled_lanes,
                   num_phases |-> ap.num_phases,
                   i |-> 0, queue_lengths |-> <<>>, waiting_times |-> <<>>]
    /\ out' = NoOut
    /\ UNCHANGED <<lock, dep_lock, engine, beyond_apply>>

\* Lines 261-271, one lane: getLastStepHaltingNumber, then
\* getLastStepVehicleIDs and getWaitingTime.  Any of them may raise (all of
\* them do without a connection); the handler appends a zero to both lists,
\* whatever the try block had appended before.
ObsLane ==
    /\ ap.pc = "obs_lane"
    /\ ap.i < Len(ap.controlled_lanes)
    /\ \/ /\ engine.open
          /\ \E q \in WaitTimes, w \in WaitTimes :
                ap' = [ap EXCEPT !.i = @ + 1,
                                 !.queue_lengths = Append(@, q),
                                 !.waiting_times = Append(@, w)]
       \/ ap' = [ap EXCEPT !.i = @ + 1,
                           !.queue_lengths = Append(@, 0),
                           !.waiting_times = Append(@, 0)]
       \/ /\ engine.open
          /\ \E q \in WaitTimes :
                ap' = [ap EXCEPT !.i = @ + 1,
                                 !.queue_lengths = Append(Append(@, q), 0),
                                 !.waiting_times = Append(@, 0)]
    /\ out' = NoOut
    /\ UNCHANGED <<lock, dep_lock, engine, beyond_apply>>

\* the phase getPhase reports for a traffic light, or 0 when it raises
PhaseReadings(tl_id) ==
    IF engine.open /\ tl_id \in EngineTls THEN {engine.phase[tl_id], 0} ELSE {0}

\* np.zeros(num_phases) with a one at current_phase when that is in range
one_hot(current_phase, num_phases) ==
    [k \in 1..num_phases |->
        IF 0 <= current_phase /\ current_phase < num_phases
              /\ k = current_phase + 1
        THEN 1 ELSE 0]

\* Lines 273-290: the phase, its one-hot encoding, and the concatenation.
ObsPhase ==
    /\ ap.pc = "obs_lane"
    /\ ap.i = Len(ap.controlled_lanes)
    /\ \E current_phase \in PhaseReadings(ap.tl_id) :
          ap' = [pc |-> "predict", tl_id |-> ap.tl_id,
                 controlled_lanes |-> ap.controlled_lanes,
                 num_phases |-> ap.num_phases,
                 observation |->
                     ap.queue_lengths \o ap.waiting_times
                        \o one_hot(current_phase, ap.num_phases)]
    /\ out' = NoOut
    /\ UNCHANGED <<lock, dep_lock, engine, beyond_apply>>

\* ml_service.predict (lines 500-519) and _check_sumo_available at the head
\* of set_traffic_light_phase (line 313).
Predict ==
    /\ ap.pc = "predict"
    /\ IF loaded_model = None
       THEN ApRaise(ErrNoModelLoaded)
       ELSE IF ~SUMO_AVAILABLE
            THEN ApRaise(ErrUnavailable)
            ELSE /\ \E a \in ModelActions :
                       ap' = [pc |-> "set_phase_lock", tl_id |-> ap.tl_id,
                              action |-> a]
                 /\ out' = NoOut
    /\ UNCHANGED <<lock, dep_lock, engine, beyond_apply>>

\* sumo_service.py line 315: the controller's `with _state._lock:`
ApplyLock ==
    /\ ap.pc = "set_phase_lock"
    /\ lock = NoThread
    /\ lock' = Driver
    /\ ap' = [ap EXCEPT !.pc = "set_phase_body"]
    /\ out' = NoOut
    /\ UNCHANGED <<dep_lock, engine, beyond_apply>>

\* sumo_service.py lines 316-326 as in SetPhaseCheck and SetPhaseEngine, then
\* line 312: the action is returned.
ApplySetPhase ==
    /\ ap.pc = "set_phase_body"
    /\ lock' = (IF lock = Driver THEN NoThread ELSE lock)
    /\ ap' = ApIdle
    /\ LET known == ap.tl_id \in EngineTls /\ ap.action \in EnginePhases
       IN IF ~is_running
          THEN /\ out' = [thread |-> Driver,
                          ret |-> Raised("apply", ErrNoSimulation)]
               /\ UNCHANGED engine
          ELSE \/ /\ known
                  /\ engine' = [engine EXCEPT !.phase[ap.tl_id] = ap.action]
                  /\ out' = [thread |-> Driver,
                             ret |-> Returned("apply", ap.action)]
               \/ /\ known
                  /\ engine' = [engine EXCEPT !.phase[ap.tl_id] = ap.action]
                  /\ out' = [thread |-> Driver,
                             ret |-> Raised("apply", ErrSetPhaseFailed)]
               \/ /\ UNCHANGED engine
                  /\ out' = [thread |-> Driver,
                             ret |-> Raised("apply", ErrSetPhaseFailed)]
    /\ UNCHANGED <<dep_lock, beyond_apply>>

\* ------------------------------------------------------ RL Environment Adapter
\* TrafficLightEnv and MultiScenarioEnvWrapper (src/backend/app/ml/environment.py)
\* are used by one thread, which calls the controller's operations like any
\* other client: it waits for the lock and runs the same steps.
Agent == 1

\* bounds of the adapter's history
MaxEpisodeStep == 6
MaxEpisodes == 8

\* the constructor's max_steps and steps_per_action (lines 43-44), scaled down
\* from 10 and 5 of the truncation scenario
max_steps == 4
steps_per_action == 2
\* the constructor's tl_id and routes_path
EnvTlId == "tl_1"
RoutesPaths == {None, "a.rou.xml"}
\* what step() may be called with; the placeholder action space of line 83 is
\* Discrete(4)
EnvActions == -1 .. 4
PlaceholderActions == 4
\* vehicle.getWaitingTime summed over the vehicles, in seconds
TotalWaits == {0, 30, 50, 70}
\* MultiScenarioEnvWrapper's scenarios (line 418), its modes, its
\* _curriculum_threshold as constructed (line 422, scaled down from 50), and
\* what set_curriculum_threshold may be called with
DefaultScenarios == <<"light", "moderate", "heavy", "rush_hour">>
WrapperModes == {"round_robin", "random", "curriculum", "fixed"}
DefaultThreshold == 2
Thresholds == {1, 2, 3}

ErrInvalidAction == "Invalid action"
ErrRoutes == "route generation failed"
ErrUnexpectedKeyword ==
    "start_simulation() got an unexpected keyword argument 'routes_path'"

\* the parameters of sumo_service.start_simulation (sumo_service.py line 79)
\* and the keywords reset() passes to it (environment.py lines 199-204)
StartParameters == {"network_path", "network_id", "gui"}
StartKeywords == {"network_path", "network_id", "routes_path", "gui"}

\* TrafficLightEnv.__init__ (lines 65-89): the attributes of a new adapter.
\* action and i are step()'s locals; episode_steps, reward_sum, wait_at_reset
\* and closed are history: the step() calls that returned and the sum of their
\* rewards (in tenths) since reset() was last called, the total wait when that
\* reset() ended (-1: reset() was never called), and whether close() has
\* returned before.
EnvNew ==
    [pc |-> "idle", routes_path |-> None, scenario |-> "moderate",
     current_step |-> 0, prev_total_wait_time |-> 0,
     controlled_lanes |-> <<>>, num_phases |-> 0, is_initialized |-> FALSE,
     action_space |-> PlaceholderActions, action |-> 0, i |-> 0,
     episode_steps |-> 0, reward_sum |-> 0, wait_at_reset |-> -1,
     closed |-> FALSE]

\* MultiScenarioEnvWrapper.__init__ (lines 417-422).  chosen is history: the
\* index and the threshold of the last curriculum choice.
WrapperNew(mode) ==
    [mode |-> mode, scenarios |-> DefaultScenarios, scenario_idx |-> 0,
     episode_count |-> 0, curriculum_threshold |-> DefaultThreshold,
     chosen |-> [idx |-> 0, threshold |-> DefaultThreshold]]

RlQuiet ==
    /\ env = EnvNew
    /\ env_out = NoRet
    /\ wrapper = WrapperNew("round_robin")

\* what no step of the adapter writes itself
beyond_env ==
    <<SUMO_AVAILABLE, state, lock, engine, frame, ok_steps, osm_vars, dep_vars,
      ap, services>>

\* the adapter goes on without calling the controller
EnvStay ==
    /\ out' = NoOut
    /\ UNCHANGED <<pc, call>>

\* the controller operation o has just returned to the adapter, or raised
EnvGot(o) == out.thread = Agent /\ out.ret.op = o

\* the adapter's operation o ends by an exception
EnvRaise(o, msg) ==
    /\ env' = [env EXCEPT !.pc = "idle", !.action = 0, !.i = 0]
    /\ env_out' = Raised(o, msg)

\* _compute_total_wait_time (lines 332-348): 0.0 without the engine and when a
\* query raises
TotalWaitReadings ==
    IF SUMO_AVAILABLE /\ engine.open THEN TotalWaits \cup {0} ELSE {0}

\* _compute_reward (lines 363-371), as the fraction num / den
compute_reward(current_total_wait, prev_total_wait_time) ==
    [num |-> -(current_total_wait - prev_total_wait_time), den |-> 10]

\* ----------------------------------------------------------------- reset()
\* Lines 164-168: reset() asks the controller whether a run is active.
ResetEnter(scenario) ==
    /\ env.pc = "idle"
    /\ pc[Agent] = "idle"
    /\ env' = [env EXCEPT !.pc = "reset_running", !.scenario = scenario,
                          !.episode_steps = 0, !.reward_sum = 0]
    /\ env_out' = NoRet
    /\ pc' = [pc EXCEPT ![Agent] = "lock"]
    /\ call' = [call EXCEPT ![Agent] = [op |-> "is_running"]]
    /\ out' = NoOut
    /\ UNCHANGED beyond_env

env_reset ==
    /\ ResetEnter(env.scenario)
    /\ UNCHANGED wrapper

\* reset() ends by an exception; the total wait at that moment is recorded
ResetRaise(msg) ==
    \E w \in TotalWaitReadings :
       /\ env' = [env EXCEPT !.pc = "idle", !.wait_at_reset = w]
       /\ env_out' = Raised("reset", msg)

\* Lines 167-168: an active run is stopped.
EnvResetRunning ==
    /\ env.pc = "reset_running"
    /\ EnvGot("is_running")
    /\ IF out.ret.result
       THEN /\ env' = [env EXCEPT !.pc = "reset_stop"]
            /\ pc' = [pc EXCEPT ![Agent] = "lock"]
            /\ call' = [call EXCEPT ![Agent] = [op |-> "stop"]]
            /\ out' = NoOut
       ELSE /\ env' = [env EXCEPT !.pc = "reset_routes"]
            /\ EnvStay
    /\ env_out' = NoRet
    /\ UNCHANGED <<beyond_env, wrapper>>

EnvResetStopped ==
    /\ env.pc = "reset_stop"
    /\ EnvGot("stop")
    /\ env' = [env EXCEPT !.pc = "reset_routes"]
    /\ env_out' = NoRet
    /\ EnvStay
    /\ UNCHANGED <<beyond_env, wrapper>>

\* Lines 176-195: without a routes_path the routes are generated, which may
\* raise (missing tools, missing files, a failing tool).
EnvResetRoutes ==
    /\ env.pc = "reset_routes"
    /\ \/ /\ env' = [env EXCEPT !.pc = "reset_start"]
          /\ env_out' = NoRet
       \/ /\ env.routes_path = None
          /\ ResetRaise(ErrRoutes)
    /\ EnvStay
    /\ UNCHANGED <<beyond_env, wrapper>>

\* Lines 199-204: sumo_service.start_simulation is called with the keyword
\* routes_path, which it does not have: the call raises TypeError before the
\* controller does anything, and lines 206-222 are not reached.
EnvResetStart ==
    /\ env.pc = "reset_start"
    /\ IF StartKeywords \subseteq StartParameters
       THEN /\ env' = [env EXCEPT !.pc = "reset_started"]
            /\ env_out' = NoRet
            /\ pc' = [pc EXCEPT ![Agent] = "lock"]
            /\ call' = [call EXCEPT ![Agent] =
                           [op |-> "start", network_path |-> "a.net.xml",
                            network_id |-> "net_1"]]
            /\ out' = NoOut
       ELSE /\ ResetRaise(ErrUnexpectedKeyword)
            /\ EnvStay
    /\ UNCHANGED <<beyond_env, wrapper>>

\* ------------------------------------------------------------------ step()
\* Lines 236-240: the action is checked against action_space, then the phase
\* is set; set_traffic_light_phase begins with _check_sumo_available().  The
\* guards keep the two step counters within their bounds.
env_step ==
    /\ env.pc = "idle"
    /\ pc[Agent] = "idle"
    /\ env.current_step + steps_per_action <= MaxEpisodeStep
    /\ current_step + steps_per_action <= MaxStep
    /\ \E a \in EnvActions :
          IF a \notin 0 .. (env.action_space - 1)
          THEN /\ EnvRaise("step", ErrInvalidAction)
               /\ EnvStay
          ELSE IF ~SUMO_AVAILABLE
               THEN /\ EnvRaise("step", ErrUnavailable)
                    /\ EnvStay
               ELSE /\ env' = [env EXCEPT !.pc = "step_phase", !.action = a]
                    /\ env_out' = NoRet
                    /\ pc' = [pc EXCEPT ![Agent] = "lock"]
                    /\ call' = [call EXCEPT ![Agent] =
                                   [op |-> "set_phase", tl_id |-> EnvTlId,
                                    phase_index |-> a]]
                    /\ out' = NoOut
    /\ UNCHANGED <<beyond_env, wrapper>>

\* Line 240 returns or raises.
EnvStepPhase ==
    /\ env.pc = "step_phase"
    /\ EnvGot("set_phase")
    /\ IF out.ret.exc # ""
       THEN EnvRaise("step", out.ret.exc)
       ELSE /\ env' = [env EXCEPT !.pc = "step_loop", !.i = 0]
            /\ env_out' = NoRet
    /\ EnvStay
    /\ UNCHANGED <<beyond_env, wrapper>>

\* Lines 244-245: one iteration of the batch calls sumo_service.step().
EnvStepCall ==
    /\ env.pc = "step_loop"
    /\ env.i < steps_per_action
    /\ pc[Agent] = "idle"
    /\ env' = [env EXCEPT !.pc = "step_wait"]
    /\ env_out' = NoRet
    /\ pc' = [pc EXCEPT ![Agent] = "lock"]
    /\ call' = [call EXCEPT ![Agent] = [op |-> "step"]]
    /\ out' = NoOut
    /\ UNCHANGED <<beyond_env, wrapper>>

\* Lines 245-247: the call raises out of step(), or _current_step is
\* incremented.
EnvStepTicked ==
    /\ env.pc = "step_wait"
    /\ EnvGot("step")
    /\ IF out.ret.exc # ""
       THEN EnvRaise("step", out.ret.exc)
       ELSE /\ env' = [env EXCEPT !.pc = "step_loop", !.i = @ + 1,
                                  !.current_step = @ + 1]
            /\ env_out' = NoRet
    /\ EnvStay
    /\ UNCHANGED <<beyond_env, wrapper>>

\* Lines 250-270: the reward, the new _prev_total_wait_time, truncation.  The
\* observation of line 255 is read from the engine and changes nothing.
EnvStepReturn ==
    /\ env.pc = "step_loop"
    /\ env.i = steps_per_action
    /\ \E current_total_wait \in TotalWaitReadings :
          LET reward == compute_reward(current_total_wait,
                                       env.prev_total_wait_time)
          IN /\ env' = [env EXCEPT !.pc = "idle", !.action = 0, !.i = 0,
                           !.prev_total_wait_time = current_total_wait,
                           !.episode_steps = @ + 1,
                           !.reward_sum = @ + reward.num]
             /\ env_out' = Returned("step",
                    [reward |-> reward, terminated |-> FALSE,
                     truncated |-> env.current_step >= max_steps,
                     step |-> env.current_step,
                     total_wait_time |-> current_total_wait,
                     action |-> env.action])
    /\ EnvStay
    /\ UNCHANGED <<beyond_env, wrapper>>

\* ----------------------------------------------------------------- close()
\* Line 384: close() asks the controller whether a run is active.
env_close ==
    /\ env.pc = "idle"
    /\ pc[Agent] = "idle"
    /\ env' = [env EXCEPT !.pc = "close_running"]
    /\ env_out' = NoRet
    /\ pc' = [pc EXCEPT ![Agent] = "lock"]
    /\ call' = [call EXCEPT ![Agent] = [op |-> "is_running"]]
    /\ out' = NoOut
    /\ UNCHANGED <<beyond_env, wrapper>>

\* Lines 386-387: close() returns.  The result records whether it stopped a
\* run and whether the adapter had been closed before.
CloseReturn(stopped) ==
    /\ env' = [env EXCEPT !.pc = "idle", !.is_initialized = FALSE,
                          !.closed = TRUE]
    /\ env_out' = Returned("close", [stopped |-> stopped, again |-> env.closed])

\* Mutant of EnvCloseRunning: close() returns without stopping the run.
EnvCloseRunning_NoStop ==
    /\ env.pc = "close_running"
    /\ EnvGot("is_running")
    /\ CloseReturn(FALSE)
    /\ EnvStay
    /\ UNCHANGED <<beyond_env, wrapper>>

\* Lines 384-385.
EnvCloseRunning ==
    /\ env.pc = "close_running"
    /\ EnvGot("is_running")
    /\ IF out.ret.result
       THEN /\ env' = [env EXCEPT !.pc = "close_stop"]
            /\ env_out' = NoRet
            /\ pc' = [pc EXCEPT ![Agent] = "lock"]
            /\ call' = [call EXCEPT ![Agent] = [op |-> "stop"]]
            /\ out' = NoOut
       ELSE /\ CloseReturn(FALSE)
            /\ EnvStay
    /\ UNCHANGED <<beyond_env, wrapper>>

EnvCloseStopped ==
    /\ env.pc = "close_stop"
    /\ EnvGot("stop")
    /\ CloseReturn(TRUE)
    /\ EnvStay
    /\ UNCHANGED <<beyond_env, wrapper>>

\* a client starts a run while the adapter is between two of its operations
client_start ==
    /\ env.pc = "idle"
    /\ start_simulation(Agent)

\* ------------------------------------------------ MultiScenarioEnvWrapper
\* scenarios[i], counted from 0
At(scenarios, i) == scenarios[i + 1]

Min(a, b) == IF a <= b THEN a ELSE b

\* Mutant of CurriculumIndex: the index wraps around instead of saturating.
CurriculumIndex_Wraps(episode_count, threshold, n) ==
    (episode_count \div threshold) % n

\* Lines 448-449: progress = episode_count / (threshold * n) and
\* min(int(progress * n), n - 1); progress is kept as its numerator over
\* threshold * n.
CurriculumIndex(episode_count, threshold, n) ==
    LET progress == [num |-> episode_count, den |-> threshold * n]
    IN Min((progress.num * n) \div progress.den, n - 1)

\* Mutant of wrapper_reset: round_robin advances before it selects.
wrapper_reset_AdvanceFirst ==
    /\ wrapper.episode_count < MaxEpisodes
    /\ LET n == Len(wrapper.scenarios)
       IN \E scenario \in { wrapper.scenarios[k] : k \in 1 .. n } :
             /\ scenario = At(wrapper.scenarios, (wrapper.scenario_idx + 1) % n)
             /\ wrapper' = [wrapper EXCEPT !.scenario_idx = @ + 1,
                                           !.episode_count = @ + 1]
             /\ ResetEnter(scenario)

\* Lines 439-462: the scenario is selected by the mode, the wrapped adapter's
\* scenario is set, _episode_count is incremented, and the wrapped reset() is
\* called.
wrapper_reset ==
    /\ wrapper.episode_count < MaxEpisodes
    /\ LET n == Len(wrapper.scenarios)
           idx == CurriculumIndex(wrapper.episode_count,
                                  wrapper.curriculum_threshold, n)
       IN \E scenario \in { wrapper.scenarios[k] : k \in 1 .. n } :
             /\ CASE wrapper.mode = "round_robin" ->
                       /\ scenario = At(wrapper.scenarios,
                                        wrapper.scenario_idx % n)
                       /\ wrapper' = [wrapper EXCEPT !.scenario_idx = @ + 1,
                                                     !.episode_count = @ + 1]
                  [] wrapper.mode = "random" ->
                       wrapper' = [wrapper EXCEPT !.episode_count = @ + 1]
                  [] wrapper.mode = "curriculum" ->
                       /\ scenario = At(wrapper.scenarios, idx)
                       /\ wrapper' =
                            [wrapper EXCEPT
                                !.episode_count = @ + 1,
                                !.chosen =
                                   [idx |-> idx,
                                    threshold |->
                                       wrapper.curriculum_threshold]]
                  [] OTHER ->
                       /\ scenario = At(wrapper.scenarios, 0)
                       /\ wrapper' = [wrapper EXCEPT !.episode_count = @ + 1]
             /\ ResetEnter(scenario)

\* Lines 478-484.
set_curriculum_threshold ==
    /\ env.pc = "idle"
    /\ \E threshold \in Thresholds :
          /\ threshold # wrapper.curriculum_threshold
          /\ wrapper' = [wrapper EXCEPT !.curriculum_threshold = threshold]
    /\ UNCHANGED <<sim_vars, osm_vars, dep_vars, ap, env, env_out, services>>

\* ------------------------------------------------------------ metrics history
\* bounds: the snapshots ever added, and the largest max_size
MaxAdds == 4
MaxSize == 3
\* what get_recent may be called with
Counts == 0 .. MaxAdds

\* MetricsHistory(max_size) (lines 34-36).  A snapshot is known by its serial
\* number, the step of the tests; added and cleared_at are history: the
\* snapshots added so far, and how many had been added at the last clear().
HistoryNew(max_size) ==
    [max_size |-> max_size, snapshots |-> <<>>, added |-> 0, cleared_at |-> 0]

MetricsQuiet ==
    /\ history = HistoryNew(MaxSize)
    /\ history_out = NoRet

beyond_metrics ==
    <<sim_vars, osm_vars, dep_vars, ap, rl_vars, stream, training_vars>>

\* deque.popleft()
popleft(snapshots) == SubSeq(snapshots, 2, Len(snapshots))

\* list[start:] as Python slices it: a negative start counts from the end and
\* is clipped at the front, a start past the end gives the empty list
SliceFrom(list, start) ==
    LET first == IF start < 0
                 THEN (IF Len(list) + start < 0 THEN 0 ELSE Len(list) + start)
                 ELSE (IF start > Len(list) THEN Len(list) ELSE start)
    IN SubSeq(list, first + 1, Len(list))

\* Lines 46-49, under the history's lock.
add ==
    /\ history.added < MaxAdds
    /\ history' =
          [history EXCEPT
              !.snapshots =
                 Append(IF Len(@) >= history.max_size THEN popleft(@) ELSE @,
                        history.added + 1),
              !.added = @ + 1]
    /\ history_out' = NoRet
    /\ UNCHANGED beyond_metrics

\* Lines 60-61, under the history's lock.
get_recent ==
    /\ \E count \in Counts :
          history_out' = Returned("get_recent",
                                  [count |-> count,
                                   snapshots |->
                                      SliceFrom(history.snapshots, -count)])
    /\ UNCHANGED <<history, beyond_metrics>>

\* Lines 65-66, under the history's lock.
clear ==
    /\ history.snapshots # <<>>
    /\ history' = [history EXCEPT !.snapshots = <<>>,
                                  !.cleared_at = history.added]
    /\ history_out' = NoRet
    /\ UNCHANGED beyond_metrics

\* ---------------------------------------------------------------- event stream
\* GET /simulation/stream: _simulation_event_generator runs on the event loop
\* and has its step() calls made by a thread of the executor.  Streamer is
\* that thread; the clients' requests come in on the Operator's.
Streamer == 2

StreamNew == [pc |-> "idle", final_step |-> 0, event |-> "none"]
StreamQuiet == stream = StreamNew

\* what no step of the generator writes
beyond_stream ==
    <<SUMO_AVAILABLE, state, lock, engine, frame, ok_steps, osm_vars, dep_vars,
      ap, rl_vars, history_out, training_vars>>

\* step() has returned to the generator, or raised, and the generator has not
\* yet taken the result
StreamGot == stream.pc = "step_wait" /\ out.thread = Streamer /\ out.ret.op = "step"

\* the generator goes on without calling the controller
StreamStay ==
    /\ out' = NoOut
    /\ UNCHANGED <<pc, call, history, beyond_stream>>

\* stream_simulation, lines 258-284: a client opens the stream and the
\* generator starts with final_step = 0 (line 206).
stream_simulation ==
    /\ stream.pc \in {"idle", "done"}
    /\ stream' = [pc |-> "while", final_step |-> 0, event |-> "none"]
    /\ StreamStay

\* Line 208: `while sumo_service.get_is_running():`, which reads the flag
\* under the controller's lock (sumo_service.py, lines 579-582).
StreamWhile ==
    /\ stream.pc = "while"
    /\ lock = NoThread
    /\ stream' = [stream EXCEPT
          !.pc = IF is_running THEN "if_paused" ELSE "stopped"]
    /\ StreamStay

\* Lines 209-211: `if sumo_service.get_is_paused():` (sumo_service.py, lines
\* 573-576) and the heartbeat.
StreamIfPaused ==
    /\ stream.pc = "if_paused"
    /\ lock = NoThread
    /\ stream' = IF is_paused
                 THEN [stream EXCEPT !.pc = "sleep", !.event = "heartbeat"]
                 ELSE [stream EXCEPT !.pc = "step_call"]
    /\ StreamStay

\* Line 215: `await sumo_service.step_async()`, which has step() run by the
\* executor's thread (sumo_service.py, lines 567-570).
StreamStepCall ==
    /\ stream.pc = "step_call"
    /\ current_step + Cardinality({u \in Threads : call[u].op = "step"}) < MaxStep
    /\ history.added < MaxAdds
    /\ pc[Streamer] = "idle"
    /\ stream' = [stream EXCEPT !.pc = "step_wait"]
    /\ IF ~SUMO_AVAILABLE
       THEN /\ out' = [thread |-> Streamer, ret |-> Raised("step", ErrUnavailable)]
            /\ UNCHANGED <<pc, call>>
       ELSE /\ pc' = [pc EXCEPT ![Streamer] = "lock"]
            /\ call' = [call EXCEPT ![Streamer] = [op |-> "step"]]
            /\ out' = NoOut
    /\ UNCHANGED <<history, beyond_stream>>

\* Lines 216-234: the result's step becomes final_step, record_metrics adds a
\* snapshot to the history and the step event is sent; lines 235-237: a
\* RuntimeError of step() breaks out of the loop.  Every exception of step()
\* is a RuntimeError, so that the handler of lines 242-246 is not reached.
StreamStepped ==
    /\ StreamGot
    /\ IF out.ret.exc # ""
       THEN /\ stream' = [stream EXCEPT !.pc = "stopped"]
            /\ UNCHANGED history
       ELSE /\ stream' = [stream EXCEPT !.pc = "sleep", !.event = "step",
                                        !.final_step = out.ret.result.step]
            /\ history' = [history EXCEPT
                  !.snapshots = Append(IF Len(@) >= history.max_size
                                       THEN popleft(@) ELSE @,
                                       history.added + 1),
                  !.added = @ + 1]
    /\ out' = NoOut
    /\ UNCHANGED <<pc, call, beyond_stream>>

\* Line 240: `await asyncio.sleep(step_interval / 1000.0)`, and back to the
\* head of the loop.
StreamSleep ==
    /\ stream.pc = "sleep"
    /\ stream' = [stream EXCEPT !.pc = "while"]
    /\ StreamStay

\* Lines 248-250: the stopped event, with which the generator ends.
StreamStopped ==
    /\ stream.pc = "stopped"
    /\ stream' = [stream EXCEPT !.pc = "done", !.event = "stopped"]
    /\ StreamStay

\* ---------------------------------------------------------------- training jobs
\* ml_service's start_training, stop_training and _run_training.  Each
\* `with _state._lock:` block is short and takes no other lock: it is one step.
\* ------------------------------------------------------------------ bounds
\* the training threads ever started
MaxTrainers == 2
\* total_timesteps of a job
MaxTimesteps == 2

Trainers == 1 .. MaxTrainers
\* the networks a training is asked for, and those of them whose .net.xml
\* file _get_network_path finds
TrainNetworks == {"net_1", "net_gone"}
ExistingNetworks == {"net_1"}

ErrTrainingRunning == "Training is already running. Stop the current job first."
ErrNoTrainingJob == "No training job is currently running"

\* _training_job = None
NoJob == [status |-> "none", saved |-> FALSE]
\* MLServiceState()
TrainingNew ==
    [job |-> NoJob, stop_flag |-> FALSE, started |-> 0,
     threads |-> [k \in Trainers |-> [pc |-> "unborn", timestep |-> 0]]]
TrainingQuiet == training = TrainingNew /\ training_out = NoRet

\* what no step of the training service writes
beyond_training ==
    <<sim_vars, osm_vars, dep_vars, ap, rl_vars, metrics_vars, stream>>

\* threading.Thread.is_alive() of the k-th training thread
Alive(k) == training.threads[k].pc \notin {"unborn", "done"}

\* start_training, lines 242-307: the network file must exist (line 272);
\* under the lock a job whose status is RUNNING refuses the call, and
\* otherwise a new job replaces the old one, the stop flag is cleared and a
\* new thread is started.
start_training ==
    /\ \E net \in TrainNetworks :
          IF net \notin ExistingNetworks
          THEN /\ training_out' = Raised("start_training", ErrNetworkNotFound)
               /\ UNCHANGED training
          ELSE IF training.job.status = "running"
               THEN /\ training_out' = Raised("start_training", ErrTrainingRunning)
                    /\ UNCHANGED training
               ELSE /\ training.started < MaxTrainers
                    /\ training' = [training EXCEPT
                          !.job = [status |-> "running", saved |-> FALSE],
                          !.stop_flag = FALSE,
                          !.started = @ + 1,
                          !.threads[training.started + 1].pc = "setup"]
                    /\ training_out' = Returned("start_training", "started")
    /\ UNCHANGED beyond_training

\* stop_training, lines 310-329
stop_training ==
    /\ IF training.job.status # "running"
       THEN /\ training_out' = Raised("stop_training", ErrNoTrainingJob)
            /\ UNCHANGED training
       ELSE /\ training' = [training EXCEPT !.job.status = "stopping",
                                            !.stop_flag = TRUE]
            /\ training_out' = Returned("stop_training", "stopping")
    /\ UNCHANGED beyond_training

\* a step of the k-th thread that takes it to position p
TrainerGoto(k, p) ==
    /\ training' = [training EXCEPT !.threads[k].pc = p]
    /\ training_out' = NoRet
    /\ UNCHANGED beyond_training

\* _run_training, lines 160-184: the network path, the environment, the
\* trainer and the callbacks; any of the constructors may raise.
TrainSetup(k) ==
    /\ training.threads[k].pc = "setup"
    /\ \/ TrainerGoto(k, "train")
       \/ TrainerGoto(k, "except")

\* Lines 187-191: trainer.train, one timestep of model.learn.  After each
\* timestep StopTrainingCallback._on_step (lines 73-79) ends the training if
\* the stop flag is set; the environment or the algorithm may raise.
TrainLearn(k) ==
    /\ training.threads[k].pc = "train"
    /\ \/ /\ training' =
                IF training.stop_flag
                      \/ training.threads[k].timestep = MaxTimesteps
                THEN [training EXCEPT !.threads[k].pc = "finish"]
                ELSE [training EXCEPT !.threads[k].timestep = @ + 1]
          /\ training_out' = NoRet
          /\ UNCHANGED beyond_training
       \/ TrainerGoto(k, "except")

\* Lines 193-218, under the lock: the job of the moment is marked COMPLETED
\* and the model is saved; trainer.save may raise.
TrainFinish(k) ==
    /\ training.threads[k].pc = "finish"
    /\ IF training.job = NoJob
       THEN TrainerGoto(k, "cleanup")
       ELSE /\ \/ training' = [training EXCEPT
                      !.job = [status |-> "completed", saved |-> TRUE],
                      !.threads[k].pc = "cleanup"]
               \/ training' = [training EXCEPT
                      !.job.status = "completed",
                      !.threads[k].pc = "except"]
            /\ training_out' = NoRet
            /\ UNCHANGED beyond_training

\* Lines 220-227: the handler marks the job of the moment FAILED.
TrainExcept(k) ==
    /\ training.threads[k].pc = "except"
    /\ training' = [training EXCEPT
          !.job.status = IF training.job = NoJob THEN @ ELSE "failed",
          !.threads[k].pc = "cleanup"]
    /\ training_out' = NoRet
    /\ UNCHANGED beyond_training

\* Lines 229-239: the environment is closed, _trainer and _metrics_callback
\* are cleared, and the thread ends.
TrainCleanup(k) ==
    /\ training.threads[k].pc = "cleanup"
    /\ TrainerGoto(k, "done")

ServicesQuiet == MetricsQuiet /\ StreamQuiet /\ TrainingQuiet

CallersQuiet == ApplyQuiet /\ RlQuiet /\ ServicesQuiet

\* ------------------------------------------------------------- specification
Next ==
    \E t \in Threads :
        \/ start_simulation(t) \/ AcquireLock(t) \/ StartCheck(t) \/ StartLaunch(t)
        \/ step(t) \/ StepCheck(t) \/ StepTick(t) \/ StepIds(t) \/ StepLoop(t)
        \/ StepReturn(t)
        \/ pause_simulation(t) \/ PauseBody(t)
        \/ resume_simulation(t) \/ ResumeBody(t)
        \/ stop_simulation(t) \/ StopRead(t) \/ StopClose(t) \/ StopReset(t)
        \/ get_status(t) \/ StatusBody(t)
        \/ set_traffic_light_phase(t) \/ SetPhaseCheck(t) \/ SetPhaseEngine(t)
        \/ set_traffic_light_program(t) \/ SetProgramCheck(t)
        \/ SetProgramEngine(t)

Init == SimulationInit /\ OsmQuiet /\ DepInit /\ CallersQuiet

Spec == Init /\ [][Next]_vars

\* the Network Reconciler on its own, with the controller at rest
SimulationQuiet ==
    /\ SUMO_AVAILABLE = TRUE
    /\ is_running = FALSE
    /\ is_paused = FALSE
    /\ current_step = 0
    /\ network_id = None
    /\ network_path = None
    /\ lock = NoThread
    /\ engine = EngineClosed
    /\ pc = [t \in Threads |-> "idle"]
    /\ call = [t \in Threads |-> NoCall]
    /\ frame = [t \in Threads |-> NoFrame]
    /\ out = NoOut
    /\ ok_steps = 0

InitOsm == SimulationQuiet /\ OsmInit /\ DepInit /\ CallersQuiet

NextOsm ==
    \/ \E n \in NetworkIds : extract_network(n)
    \/ \E n \in NetworkIds : convert_to_sumo(n)
    \/ \E n \in NetworkIds : get_intersections(n)
    \/ Netconvert
    \/ MatchLight
    \/ ConvertReturn

SpecOsm == InitOsm /\ [][NextOsm]_vars

\* the Deployment Arbitrator with the Simulation Controller: clients that
\* start and stop the simulation, deploy, undeploy and toggle models, and
\* request phases by hand
InitDeploy == SimulationInit /\ OsmQuiet /\ DepInit /\ CallersQuiet

NextDeploy ==
    \E t \in Clients :
        \/ start_simulation(t) \/ AcquireLock(t) \/ StartCheck(t) \/ StartLaunch(t)
        \/ stop_simulation(t) \/ StopRead(t) \/ StopClose(t) \/ StopReset(t)
        \/ SetPhaseCheck(t) \/ SetPhaseEngine(t)
        \/ deploy_model(t) \/ AcquireDepLock(t) \/ DeployCheck(t) \/ DeployLoad(t)
        \/ DeployRegister(t)
        \/ undeploy_model(t) \/ UndeployBody(t)
        \/ toggle_ai_control(t) \/ ToggleBody(t)
        \/ manual_set_phase(t)

SpecDeploy == InitDeploy /\ [][NextDeploy]_vars

\* manual phase requests beside deploy and toggle calls of other request
\* threads: FastAPI runs the synchronous routes on a thread pool, so a request
\* to /control and a request to /deployment run side by side
InitArbitrate == SimulationInit /\ OsmQuiet /\ DepInit /\ CallersQuiet

NextArbitrate ==
    \E t \in Threads :
        \/ start_simulation(t) \/ AcquireLock(t) \/ StartCheck(t) \/ StartLaunch(t)
        \/ SetPhaseCheck(t) \/ SetPhaseEngine(t)
        \/ deploy_model(t) \/ AcquireDepLock(t) \/ DeployCheck(t) \/ DeployLoad(t)
        \/ DeployRegister(t)
        \/ toggle_ai_control(t) \/ ToggleBody(t)
        \/ manual_set_phase(t)

SpecArbitrate == InitArbitrate /\ [][NextArbitrate]_vars

\* the driver loop beside the clients: apply_ai_action against deploy,
\* undeploy and toggle on the registry and start, step and stop on the
\* controller
InitApply == SimulationInit /\ OsmQuiet /\ DepInit /\ CallersQuiet

NextApply ==
    \/ apply_ai_action \/ ObsLock \/ ObsCopy \/ ObsEngine \/ ObsLane \/ ObsPhase
    \/ Predict \/ ApplyLock \/ ApplySetPhase
    \/ \E t \in {Operator} :
          \/ start_simulation(t) \/ AcquireLock(t) \/ StartCheck(t)
          \/ StartLaunch(t)
          \/ step(t) \/ StepCheck(t) \/ StepTick(t) \/ StepIds(t) \/ StepLoop(t)
          \/ StepReturn(t)
          \/ stop_simulation(t) \/ StopRead(t) \/ StopClose(t) \/ StopReset(t)
          \/ deploy_model(t) \/ AcquireDepLock(t) \/ DeployCheck(t)
          \/ DeployLoad(t) \/ DeployRegister(t)
          \/ undeploy_model(t) \/ UndeployBody(t)
          \/ toggle_ai_control(t) \/ ToggleBody(t)

SpecApply == InitApply /\ [][NextApply]_vars

\* the RL environment adapter used by one thread, which also starts runs as a
\* client of the controller would
InitEnv ==
    /\ SimulationInit /\ OsmQuiet /\ DepInit /\ ApplyQuiet /\ ServicesQuiet
    /\ env \in { [EnvNew EXCEPT !.routes_path = r] : r \in RoutesPaths }
    /\ env_out = NoRet
    /\ wrapper = WrapperNew("round_robin")

NextEnv ==
    \/ env_reset \/ EnvResetRunning \/ EnvResetStopped \/ EnvResetRoutes
    \/ EnvResetStart
    \/ env_step \/ EnvStepPhase \/ EnvStepCall \/ EnvStepTicked \/ EnvStepReturn
    \/ env_close \/ EnvCloseRunning \/ EnvCloseStopped
    \/ client_start
    \/ \E t \in {Agent} :
          \/ AcquireLock(t) \/ IsRunningBody(t)
          \/ StartCheck(t) \/ StartLaunch(t)
          \/ StopRead(t) \/ StopClose(t) \/ StopReset(t)
          \/ SetPhaseCheck(t) \/ SetPhaseEngine(t)
          \/ StepCheck(t) \/ StepTick(t) \/ StepIds(t) \/ StepLoop(t)
          \/ StepReturn(t)

SpecEnv == InitEnv /\ [][NextEnv]_vars

\* the scenario-rotation wrapper over an adapter: its reset in each mode and
\* set_curriculum_threshold
InitWrapper ==
    /\ SimulationInit /\ OsmQuiet /\ DepInit /\ ApplyQuiet /\ ServicesQuiet
    /\ env \in { [EnvNew EXCEPT !.routes_path = r] : r \in RoutesPaths }
    /\ env_out = NoRet
    /\ wrapper \in { WrapperNew(mode) : mode \in WrapperModes }

NextWrapper ==
    \/ wrapper_reset \/ set_curriculum_threshold
    \/ EnvResetRunning \/ EnvResetRoutes \/ EnvResetStart
    \/ \E t \in {Agent} : AcquireLock(t) \/ IsRunningBody(t)

SpecWrapper == InitWrapper /\ [][NextWrapper]_vars

\* a metrics history of some max_size under add, get_recent and clear
InitMetrics ==
    /\ SimulationInit /\ OsmQuiet /\ DepInit /\ ApplyQuiet /\ RlQuiet
    /\ StreamQuiet /\ TrainingQuiet
    /\ history \in { HistoryNew(max_size) : max_size \in 1 .. MaxSize }
    /\ history_out = NoRet

NextMetrics == add \/ get_recent \/ clear

SpecMetrics == InitMetrics /\ [][NextMetrics]_vars

\* the event stream beside a client that starts, pauses, resumes and stops the
\* simulation.  `out` holds what the last call returned: the generator takes
\* the result of its step() before the client's next step overwrites it.
InitStream == SimulationInit /\ OsmQuiet /\ DepInit /\ CallersQuiet

NextStream ==
    \/ stream_simulation \/ StreamWhile \/ StreamIfPaused \/ StreamStepCall
    \/ StreamStepped \/ StreamSleep \/ StreamStopped
    \/ \E t \in {Streamer} :
          \/ AcquireLock(t)
          \/ StepCheck(t) \/ StepTick(t) \/ StepIds(t) \/ StepLoop(t)
          \/ StepReturn(t)
    \/ \E t \in {Operator} :
          /\ ~StreamGot
          /\ \/ start_simulation(t) \/ AcquireLock(t) \/ StartCheck(t)
             \/ StartLaunch(t)
             \/ pause_simulation(t) \/ PauseBody(t)
             \/ resume_simulation(t) \/ ResumeBody(t)
             \/ stop_simulation(t) \/ StopRead(t) \/ StopClose(t)
             \/ StopReset(t)

SpecStream == InitStream /\ [][NextStream]_vars

\* the training service: clients that start and stop training, and the
\* training threads
InitTraining == SimulationInit /\ OsmQuiet /\ DepInit /\ CallersQuiet

NextTraining ==
    \/ start_training
    \/ stop_training
    \/ \E k \in Trainers :
          \/ TrainSetup(k) \/ TrainLearn(k) \/ TrainFinish(k) \/ TrainExcept(k)
          \/ TrainCleanup(k)

SpecTraining == InitTraining /\ [][NextTraining]_vars

\* ------------------------------------------------------------------ properties
\* The step just taken completed operation o of thread t (by return or raise).
Done(t, o) == out'.thread = t /\ out'.ret.op = o
Inside(t) == pc[t] \notin {"idle", "lock"}
AfterTick == {"step_ids", "step_loop"}

\* C1: start() while a run is active (RUNNING or PAUSED) raises "Simulation
\* already running" and leaves the state fields and the engine as they were.
C1_StartWhileActiveConflicts ==
    [][\A t \in Threads :
          (Done(t, "start") /\ is_running)
              => /\ out'.ret.exc = ErrAlreadyRunning
                 /\ UNCHANGED <<state, engine>>]_vars

C1_Witness ==
    /\ out.ret.op = "start"
    /\ out.ret.exc = ErrAlreadyRunning
    /\ Status = "paused"
    /\ current_step > 0
    /\ engine.open

\* C2: a start() that fails because the engine is unavailable, the network
\* file is missing or the launch raises leaves the controller IDLE with
\* current_step = 0, no network_id and the lock not held by the caller, which
\* is all a later start() needs.
C2_FailedStartLeavesIdle ==
    [][\A t \in Threads :
          (Done(t, "start")
             /\ out'.ret.exc \in {ErrUnavailable, ErrNetworkNotFound, ErrStartFailed})
              => /\ Status' = "idle"
                 /\ ~is_paused'
                 /\ current_step' = 0
                 /\ network_id' = None
                 /\ lock' # t
                 /\ pc'[t] = "idle"]_vars

C2_Witness ==
    /\ out.ret.op = "start"
    /\ out.ret.exc = ErrStartFailed
    /\ \E u \in Threads : u # out.thread /\ pc[u] = "lock" /\ call[u].op = "start"

\* C3: step() while PAUSED raises "Simulation is paused", step() while IDLE
\* raises a different error, and neither ticks the engine nor changes
\* current_step.
C3_PauseGating ==
    [][\A t \in Threads :
          /\ (Done(t, "step") /\ Status = "paused")
                => out'.ret.exc = ErrPaused /\ UNCHANGED <<current_step, engine>>
          /\ (Done(t, "step") /\ Status = "idle")
                => /\ out'.ret.exc \in {ErrNoSimulation, ErrUnavailable}
                   /\ out'.ret.exc # ErrPaused
                   /\ UNCHANGED <<current_step, engine>>]_vars

C3_Witness ==
    /\ out.ret.op = "step"
    /\ out.ret.exc = ErrPaused
    /\ Status = "paused"
    /\ current_step > 0

\* C4: every successful step() returns one more than the previous successful
\* step() of the run (1 for the first), and current_step decreases only when
\* stop() resets it.
C4_MonotonicStepping ==
    [][/\ \A t \in Threads :
             (Done(t, "step") /\ out'.ret.exc = "")
                 => out'.ret.result.step = ok_steps + 1
       /\ current_step' < current_step => \E t \in Threads : Done(t, "stop")]_vars

\* C5: stop() succeeds from every state, returns final_step = the number of
\* successful steps since the last start, and leaves the controller IDLE with
\* current_step = 0 and no network_id.
C5_StopReportsSuccessfulSteps ==
    [][\A t \in Threads :
          Done(t, "stop")
              => /\ out'.ret.exc = ""
                 /\ out'.ret.result.final_step = ok_steps
                 /\ Status' = "idle"
                 /\ current_step' = 0
                 /\ network_id' = None]_vars

\* C6: under concurrent callers the K-th step result delivered in a run
\* carries step number K: the numbers delivered are 1, 2, ..., K, none
\* skipped, none twice.
C6_StepNumbersAreConsecutive ==
    (out.ret.op = "step" /\ out.ret.exc = "") => out.ret.result.step = ok_steps

\* C7: a thread is inside an operation's block only while it holds the lock,
\* at most one thread is inside at a time, and between a step's engine tick
\* and the end of its aggregation no step changes the state fields.
C7_MutualExclusion ==
    /\ [](\A t \in Threads : Inside(t) => lock = t)
    /\ [](Cardinality({t \in Threads : Inside(t)}) <= 1)
    /\ [][(\E t \in Threads : pc[t] \in AfterTick) => UNCHANGED state]_vars

C7_Witness ==
    \E t, u \in Threads :
        /\ pc[t] = "step_loop"
        /\ frame[t].i > 0
        /\ pc[u] = "lock"
        /\ call[u].op = "stop"

\* C8: a get_status() issued while another thread is inside step()'s engine
\* tick or aggregation loop can complete without waiting for that step.
C8_StatusNeverWaitsForStep ==
    \A t, u \in Threads :
        (pc[t] = "lock" /\ call[t].op = "get_status"
            /\ pc[u] \in {"step_tick", "step_ids", "step_loop"})
                => ENABLED AcquireLock(t)

C10_SetPhaseAsStated ==
    [][\A t \in Threads :
          ((Done(t, "set_phase") \/ Done(t, "set_program")) /\ Status # "running")
              => out'.ret.exc # ""]_vars

\* C10 amended: set_phase and set_program fail whenever no run is active
\* (status IDLE) and when tl_id is unknown to the engine; a failed call leaves
\* the state fields unchanged, and one failing the status check issues no
\* engine command.
C10_SetPhase ==
    [][\A t \in Threads :
          (Done(t, "set_phase") \/ Done(t, "set_program")) =>
              /\ Status = "idle" => out'.ret.exc \in {ErrNoSimulation, ErrUnavailable}
              /\ (pc[t] # "idle" /\ call[t].tl_id \notin EngineTls) => out'.ret.exc # ""
              /\ UNCHANGED state
              /\ out'.ret.exc \in {ErrNoSimulation, ErrUnavailable}
                    => /\ UNCHANGED engine
                       /\ pc[t] \notin {"set_phase_engine", "set_program_engine"}]_vars

C10_Witness ==
    /\ out.ret.op = "set_phase"
    /\ out.ret.exc = ErrSetPhaseFailed
    /\ Status = "paused"
    /\ \E u \in Threads :
          pc[u] = "lock" /\ call[u].op = "set_phase" /\ call[u].tl_id = "tl_x"

\* C11: a step() that fails with an engine error leaves current_step as it
\* was before the call: whenever no step() is between its tick and its
\* return, current_step counts exactly the step() calls of the run that
\* returned metrics.
C11_StepIsAtomic ==
    (\A t \in Threads : pc[t] \notin AfterTick) => current_step = ok_steps

\* ------------------------------------------------ Network Reconciler claims
\* The reconciler step just taken completed operation o (by return or raise).
OsmDone(o) == cv_out'.op = o

\* C12: the matching is injective in both directions: no two matches of one
\* convert give the same intersection to two lights, and no two give two
\* intersections the same simulation traffic-light id, also when the
\* artifact lists a traffic-light id in more than one <tlLogic> record.
C12_InjectiveMatching ==
    \A i, j \in DOMAIN cv.matches :
        i # j => /\ cv.matches[i].osm # cv.matches[j].osm
                 /\ cv.matches[i].tl # cv.matches[j].tl

\* one round of the matching loop, and what it works on
MatchRound == cv.pc = "match" /\ cv'.pc = "match" /\ cv'.k = cv.k + 1
RoundLocation == net_files[cv.network_id].location
RoundLight == cv.traffic_lights[cv.k]
RoundIntersections == network_cache[cv.network_id]
\* the listing positions of the has_signal intersections not yet consumed
Candidates ==
    { i \in DOMAIN RoundIntersections :
        /\ RoundIntersections[i].has_traffic_light
        /\ RoundIntersections[i].id \notin DOMAIN cv.osm_to_sumo_map }
RoundDistance2(i) == Distance2(RoundLocation, RoundLight, RoundIntersections[i])
Matched == Len(cv'.matches) = Len(cv.matches) + 1
NewMatch == cv'.matches[Len(cv'.matches)]

\* C13: a round of the matching maps its light exactly when some unconsumed
\* has_signal intersection lies at a distance strictly below 0.001 (so at
\* distance 0 it does, at the threshold or beyond it does not), and then to a
\* nearest one of them; otherwise the mapping is left as it was and no
\* intersection is consumed.  Intersections without has_signal are never in
\* the mapping.
C13_MatchingThreshold ==
    [][MatchRound =>
          /\ Matched <=> \E i \in Candidates :
                            BelowThreshold(RoundLocation, RoundDistance2(i))
          /\ Matched =>
                /\ NewMatch.tl = RoundLight.id
                /\ \E i \in Candidates :
                      /\ RoundIntersections[i].id = NewMatch.osm
                      /\ BelowThreshold(RoundLocation, RoundDistance2(i))
                      /\ \A j \in Candidates : RoundDistance2(i) <= RoundDistance2(j)
                /\ cv'.osm_to_sumo_map
                      = (NewMatch.osm :> NewMatch.tl) @@ cv.osm_to_sumo_map
          /\ ~Matched => /\ cv'.osm_to_sumo_map = cv.osm_to_sumo_map
                         /\ cv'.matches = cv.matches
          /\ \A i \in DOMAIN RoundIntersections :
                RoundIntersections[i].id \in DOMAIN cv'.osm_to_sumo_map
                    => RoundIntersections[i].has_traffic_light]_vars

\* the first light took intersection 1 at distance 0; for the second light
\* the has_signal intersection 2 was left, exactly at the threshold, and was
\* not taken
C13_Witness ==
    /\ cv.pc = "match"
    /\ cv.k = 3
    /\ cv.matches = <<[k |-> 1, osm |-> 1, tl |-> cv.traffic_lights[1].id]>>
    /\ LET loc == net_files[cv.network_id].location
           ints == network_cache[cv.network_id]
       IN  /\ Len(ints) >= 2
           /\ Distance2(loc, cv.traffic_lights[1], ints[1]) = 0
           /\ ints[2].has_traffic_light
           /\ Distance2(loc, cv.traffic_lights[2], ints[2])
                 = COORD_MATCH_THRESHOLD_DEG * COORD_MATCH_THRESHOLD_DEG
                   * Denominator(loc)
           /\ DOMAIN cv.osm_to_sumo_map = {1}

\* C14: the lights are matched one at a time in listing order; a round never
\* takes an intersection an earlier round consumed; the intersection it takes
\* is, among the unconsumed has_signal ones, nearer than every other or as
\* near as and earlier in the intersection list than every other at that
\* distance; and it takes none exactly when the nearest remaining one is not
\* within the threshold.
C14_GreedyOrderAndTieBreak ==
    [][MatchRound =>
          /\ Matched =>
                /\ NewMatch.k = cv.k
                /\ \A e \in DOMAIN cv.matches :
                      cv.matches[e].k < cv.k /\ cv.matches[e].osm # NewMatch.osm
                /\ \E i \in Candidates :
                      /\ RoundIntersections[i].id = NewMatch.osm
                      /\ \A j \in Candidates \ {i} :
                            \/ RoundDistance2(i) < RoundDistance2(j)
                            \/ RoundDistance2(i) = RoundDistance2(j) /\ i < j
          /\ ~Matched <=>
                \A i \in Candidates :
                   (\A j \in Candidates : RoundDistance2(i) <= RoundDistance2(j))
                       => ~BelowThreshold(RoundLocation, RoundDistance2(i))]_vars

\* the first light had intersections 1 and 2 at the same distance and took
\* 1; the second light, nearest to the consumed 1, did not get it
C14_Witness ==
    /\ cv.pc = "match"
    /\ cv.k = 3
    /\ Len(cv.matches) >= 1
    /\ cv.matches[1].k = 1
    /\ cv.matches[1].osm = 1
    /\ LET loc == net_files[cv.network_id].location
           ints == network_cache[cv.network_id]
       IN  /\ Len(ints) >= 2
           /\ ints[2].has_traffic_light
           /\ Distance2(loc, cv.traffic_lights[1], ints[1])
                 = Distance2(loc, cv.traffic_lights[1], ints[2])
           /\ Distance2(loc, cv.traffic_lights[2], ints[1])
                 < Distance2(loc, cv.traffic_lights[2], ints[2])
           /\ \A e \in DOMAIN cv.matches : e > 1 => cv.matches[e].osm # 1

\* an artifact without usable boundary metadata: no <location> element, or
\* an origBoundary or convBoundary that is missing, has not four parts or
\* has a part that is no number
LacksBoundaryMetadata(file) ==
    /\ file.xml
    /\ \/ file.location = NoLocation
       \/ \E b \in {file.location.origBoundary, file.location.convBoundary} :
             Len(b) # 4 \/ \E i \in DOMAIN b : ~b[i].ok

\* C15: a convert of a cached network whose artifact, reused or just
\* written by the tool, lacks boundary metadata does not fail: it goes on and
\* returns the artifact's path, the traffic lights parsed from it and an
\* empty mapping.
C15_NoBoundaryMetadata ==
    [][\A n \in NetworkIds :
          ( /\ n \in DOMAIN network_cache
            /\ n \in DOMAIN net_files'
            /\ LacksBoundaryMetadata(net_files'[n])
            /\ cv'.pc # cv.pc
            /\ n \in {cv.network_id, cv'.network_id} )
          => \/ cv'.pc = "match" /\ cv_out' = NoRet /\ cv'.osm_to_sumo_map = EmptyDict
             \/ /\ cv_out' = Returned("convert_to_sumo",
                                      [network_path |-> OutputPath(n),
                                       traffic_lights |->
                                           parse_sumo_traffic_lights(net_files'[n]),
                                       osm_to_sumo_tl_map |-> EmptyDict])
                /\ cv'.pc = "idle"]_vars

\* a convert returned an empty mapping and one traffic light for an artifact
\* without a converted boundary, although a has_signal intersection is cached
C15_Witness ==
    /\ cv_out.op = "convert_to_sumo"
    /\ cv_out.exc = ""
    /\ cv_out.result.osm_to_sumo_tl_map = EmptyDict
    /\ Len(cv_out.result.traffic_lights) = 1
    /\ \E n \in DOMAIN net_files \cap DOMAIN network_cache :
          /\ LacksBoundaryMetadata(net_files[n])
          /\ net_files[n].location # NoLocation
          /\ net_files[n].location.convBoundary = <<>>
          /\ \E i \in DOMAIN network_cache[n] :
                network_cache[n][i].has_traffic_light

\* C16: once a convert of a network has returned, the network stays cached
\* and its artifact stays as it is, no later convert of it reaches the
\* converter tool, and every later convert of it returns what the first one
\* returned: the same path, traffic lights and mapping.
C16_IdempotentConversion ==
    /\ [](\A n \in NetworkIds :
             first_convert[n].done
                 => n \in DOMAIN network_cache /\ n \in DOMAIN net_files)
    /\ [][\A n \in NetworkIds :
             (first_convert[n].done /\ n \in {cv.network_id, cv'.network_id})
                 => /\ cv'.pc # "netconvert"
                    /\ net_files' = net_files
                    /\ network_cache' = network_cache
                    /\ OsmDone("convert_to_sumo")
                          => cv_out' = Returned("convert_to_sumo",
                                                first_convert[n].result)]_vars

\* a second convert has just returned the first one's result, with a
\* non-empty mapping
C16_Witness ==
    /\ cv_out.op = "convert_to_sumo"
    /\ cv_out.exc = ""
    /\ \E n \in NetworkIds :
          /\ first_convert[n].again
          /\ cv_out.result = first_convert[n].result
          /\ cv_out.result.network_path = OutputPath(n)
          /\ cv_out.result.osm_to_sumo_tl_map # EmptyDict

\* -------------------------------------------- Deployment Arbitrator claims
\* C17: a deploy on a light that has a deployment raises "is already
\* controlled" and leaves the registry and the inference slot as they were;
\* an undeploy on a light that has none raises "has no deployed model" and
\* leaves them as they were; a deploy that returns has added the one
\* deployment of its light to a registry that had none for it; so every
\* light has at most one deployment, filed under its own id.
C17_DeploymentUniqueness ==
    /\ [](\A tl \in DOMAIN deployments :
             /\ deployments[tl].tl_id = tl
             /\ Cardinality({x \in DOMAIN deployments :
                                deployments[x].tl_id = tl}) = 1)
    /\ [][\A t \in Clients :
             /\ (Done(t, "deploy") /\ call[t].tl_id \in DOMAIN deployments)
                   => /\ out'.ret.exc = ErrAlreadyControlled
                      /\ UNCHANGED <<deployments, loaded_model>>
             /\ (Done(t, "undeploy") /\ call[t].tl_id \notin DOMAIN deployments)
                   => /\ out'.ret.exc = ErrNoDeployedModel
                      /\ UNCHANGED <<deployments, loaded_model>>
             /\ (Done(t, "deploy") /\ out'.ret.exc = "")
                   => /\ call[t].tl_id \notin DOMAIN deployments
                      /\ DOMAIN deployments'
                            = DOMAIN deployments \cup {call[t].tl_id}
                      /\ \A x \in DOMAIN deployments :
                            deployments'[x] = deployments[x]]_vars

\* model b was just refused on tl_1, which keeps model a, still loaded
C17_Witness ==
    /\ out.ret.op = "deploy"
    /\ out.ret.exc = ErrAlreadyControlled
    /\ DOMAIN deployments = {"tl_1"}
    /\ deployments["tl_1"].model_path = "m_dqn_a.zip"
    /\ loaded_model = "m_dqn_a.zip"

\* C18: is_ai_controlling(tl_id) holds exactly when tl_id has a deployment
\* whose ai_control_enabled flag is set; a deploy that returns leaves the
\* flag of its light set; a toggle on a light without a deployment raises and
\* changes nothing; a toggle that returns leaves the flag of its light equal
\* to its argument and every other deployment as it was.
C18_IsControlling ==
    /\ [](\A tl \in DeployTls :
             is_ai_controlling(tl)
                <=> (tl \in DOMAIN deployments
                     /\ deployments[tl].ai_control_enabled))
    /\ [][\A t \in Clients :
             /\ (Done(t, "deploy") /\ out'.ret.exc = "")
                   => deployments'[call[t].tl_id].ai_control_enabled
             /\ (Done(t, "toggle") /\ call[t].tl_id \notin DOMAIN deployments)
                   => /\ out'.ret.exc = ErrNoDeployedModel
                      /\ UNCHANGED <<deployments, loaded_model>>
             /\ (Done(t, "toggle") /\ call[t].tl_id \in DOMAIN deployments)
                   => /\ out'.ret.exc = ""
                      /\ DOMAIN deployments' = DOMAIN deployments
                      /\ deployments'[call[t].tl_id].ai_control_enabled
                            = call[t].enabled
                      /\ \A x \in DOMAIN deployments \ {call[t].tl_id} :
                            deployments'[x] = deployments[x]]_vars

\* AI control of tl_1 was just switched off while tl_2 stays under it
C18_Witness ==
    /\ out.ret.op = "toggle"
    /\ out.ret.exc = ""
    /\ out.ret.result = [tl_id |-> "tl_1", ai_control_enabled |-> FALSE]
    /\ DOMAIN deployments = {"tl_1", "tl_2"}
    /\ ~is_ai_controlling("tl_1")
    /\ is_ai_controlling("tl_2")

\* C19: a manual phase request on a light under AI control is answered with
\* AI_CONTROL_ACTIVE and changes neither the engine nor the controller, and
\* no request on such a light gets as far as calling set_traffic_light_phase;
\* a request on a light that is not under AI control (never deployed,
\* undeployed, or toggled off) is passed on, and on a running simulation it
\* fails only if the engine refuses the command, and otherwise sets the phase.
C19_ArbitrationVeto ==
    [][\A t \in Clients :
          /\ Done(t, "manual_set_phase")
                => /\ out'.ret.exc = ErrAiControlActive
                   /\ is_ai_controlling(out'.ret.tl_id)
                   /\ UNCHANGED <<engine, state, pc, call, lock>>
          /\ (pc[t] = "idle" /\ call'[t].op = "set_phase")
                => ~is_ai_controlling(call'[t].tl_id)
          /\ (pc[t] = "idle" /\ Done(t, "set_phase"))
                => ~SUMO_AVAILABLE /\ out'.ret.exc = ErrUnavailable
          /\ (pc[t] # "idle" /\ Done(t, "set_phase") /\ is_running)
                => /\ out'.ret.exc \in {"", ErrSetPhaseFailed}
                   /\ out'.ret.exc = ""
                         => engine'.phase[call[t].tl_id] = call[t].phase_index]_vars

\* the model on tl_1 is switched off, and a manual request has just set
\* phase 1 on tl_1 in the running simulation
C19_Witness ==
    /\ out.ret.op = "set_phase"
    /\ out.ret.exc = ""
    /\ out.ret.result = [tl_id |-> "tl_1", phase |-> 1]
    /\ is_running
    /\ engine.phase["tl_1"] = 1
    /\ "tl_1" \in DOMAIN deployments
    /\ ~deployments["tl_1"].ai_control_enabled

\* C20: an undeploy that returns has removed the deployment of its light
\* and no other, and has emptied the inference slot if and only if the
\* registry is empty afterwards, leaving the slot as it was otherwise; and
\* whenever the registry holds a deployment, the slot holds a model.
C20_UndeployUnloadsLast ==
    /\ [](DOMAIN deployments # {} => loaded_model # None)
    /\ [][\A t \in Clients :
             (Done(t, "undeploy") /\ out'.ret.exc = "")
                => /\ call[t].tl_id \in DOMAIN deployments
                   /\ DOMAIN deployments' = DOMAIN deployments \ {call[t].tl_id}
                   /\ \A x \in DOMAIN deployments' :
                         deployments'[x] = deployments[x]
                   /\ loaded_model' = None <=> DOMAIN deployments' = {}
                   /\ DOMAIN deployments' # {}
                         => loaded_model' = loaded_model]_vars

\* tl_1 was just undeployed; tl_2 keeps its deployment and a model is loaded
C20_Witness ==
    /\ out.ret.op = "undeploy"
    /\ out.ret.exc = ""
    /\ out.ret.result.tl_id = "tl_1"
    /\ DOMAIN deployments = {"tl_2"}
    /\ loaded_model = "m_dqn_b.zip"

\* C21: get_observation_for_tl never raises, and for every traffic light and
\* every engine condition the vector it returns has length
\* 2 * len(controlled_lanes) + num_phases.
C21_ObservationNeverRaises ==
    [][/\ ap.pc = "obs_copy" => ap'.pc = "obs_engine"
       /\ (ap.pc \in {"obs_engine", "obs_lane"} /\ ap'.pc = "predict")
             => Len(ap'.observation)
                   = 2 * Len(ap.controlled_lanes) + ap.num_phases]_vars

\* C22: no thread holds the registry lock and the controller lock together;
\* the driver holds the registry lock only while it copies controlled_lanes
\* and num_phases, and the controller lock only inside
\* set_traffic_light_phase; whoever holds a lock is not waiting for one, so
\* every wait ends.
C22_LockDiscipline ==
    /\ \A t \in {Operator, Driver} : ~(dep_lock = t /\ lock = t)
    /\ dep_lock = Driver => ap.pc = "obs_copy"
    /\ lock = Driver => ap.pc = "set_phase_body"
    /\ (dep_lock = Operator \/ lock = Operator)
          => pc[Operator] \notin {"lock", "dep_lock"}

\* the driver is inside set_traffic_light_phase while the operator's step
\* waits for the controller lock, with a model deployed
C22_Witness ==
    /\ lock = Driver
    /\ pc[Operator] = "lock"
    /\ call[Operator].op = "step"
    /\ deployments # EmptyDict

\* the adapter's positions inside reset() and inside close()
ResetPcs == {"reset_running", "reset_stop", "reset_routes", "reset_start"}
ClosePcs == {"close_running", "close_stop"}
\* the failures reset() may pass on: route generation and the controller's
\* start
ResetFailures ==
    {ErrRoutes, ErrUnavailable, ErrNetworkNotFound, ErrStartFailed}
\* the step just taken ended the adapter's reset(), close()
ResetEnds == env.pc \in ResetPcs /\ env'.pc = "idle"
CloseEnds == env.pc \in ClosePcs /\ env'.pc = "idle"

\* C23: step(action) with action outside [0, num_phases) raises the
\* invalid-action error before any effect: a set_phase is issued only for an
\* action inside the range, and a rejected step leaves the controller and the
\* episode's current_step and prev_total_wait_time as they were.
C23_InvalidActionRejected ==
    [][/\ (env.pc = "idle" /\ env'.pc = "step_phase")
             => env'.action \in 0 .. (env.num_phases - 1)
       /\ (env.pc = "idle" /\ env_out' = Raised("step", ErrInvalidAction))
             => /\ UNCHANGED <<state, engine>>
                /\ env'.current_step = env.current_step
                /\ env'.prev_total_wait_time = env.prev_total_wait_time]_vars

\* C24: every step() that returns gives reward
\* -(current_total_wait - prev_total_wait_time) / 10 and sets
\* prev_total_wait_time to current_total_wait, and the rewards of the steps
\* since reset() add up to (wait at reset - final wait) / 10.
C24_RewardTelescopes ==
    /\ [][(env.pc = "step_loop" /\ env'.pc = "idle")
             => /\ env_out'.result.total_wait_time = env'.prev_total_wait_time
                /\ 10 * env_out'.result.reward.num
                      = env_out'.result.reward.den
                          * (env.prev_total_wait_time
                               - env'.prev_total_wait_time)]_vars
    /\ []((env.wait_at_reset # -1 /\ env.episode_steps > 0)
             => env.reward_sum
                   = env.wait_at_reset - env.prev_total_wait_time)

\* C25: after the k-th step() that returned since reset, current_step is
\* k * steps_per_action, truncated is current_step >= max_steps, terminated is
\* false; truncated is false after the first step and true after the second.
C25_Truncation ==
    (env.pc = "idle" /\ env_out.op = "step" /\ env_out.exc = "")
       => /\ env.current_step = env.episode_steps * steps_per_action
          /\ env_out.result.truncated = (env.current_step >= max_steps)
          /\ ~env_out.result.terminated
          /\ env.episode_steps = 1 => ~env_out.result.truncated
          /\ env.episode_steps = 2 => env_out.result.truncated

\* C26: reset() stops an active run, starts a fresh one and returns with the
\* controller RUNNING at step 0, the episode's current_step 0 and
\* prev_total_wait_time the total wait of that moment; it fails only when the
\* routes cannot be generated or the controller cannot start the run.
C26_ResetStartsFreshRun ==
    [][ResetEnds
          => \/ /\ env_out'.exc = ""
                /\ is_running' /\ ~is_paused' /\ current_step' = 0
                /\ env'.current_step = 0
                /\ env'.prev_total_wait_time = env'.wait_at_reset
             \/ env_out'.exc \in ResetFailures]_vars

\* C27: the first reset() that gets past its failures determines num_phases
\* and controlled_lanes and the action range, and once determined they are
\* never changed or forgotten by reset(), step() or close().
C27_FixedDimensionality ==
    [][/\ (ResetEnds /\ env_out'.exc \notin ResetFailures)
             => /\ env'.is_initialized
                /\ env'.num_phases > 0
                /\ env'.action_space = env'.num_phases
       /\ env.is_initialized
             => /\ env'.is_initialized
                /\ env'.num_phases = env.num_phases
                /\ env'.controlled_lanes = env.controlled_lanes
                /\ env'.action_space = env.action_space]_vars

\* C28: close() always returns and leaves the controller IDLE: it stops the
\* run if one is active (stop_simulation never raises), and with no active
\* run, as on a repeated close(), it changes nothing in the controller.
C28_CloseIdempotent ==
    /\ [](out.ret.op = "stop" => out.ret.exc = "")
    /\ [][/\ CloseEnds
                => /\ env_out'.op = "close" /\ env_out'.exc = ""
                   /\ ~is_running' /\ ~is_paused' /\ current_step' = 0
                   /\ network_id' = None
          /\ (env.pc = "close_running" /\ env'.pc = "idle")
                => UNCHANGED <<state, engine>>
          /\ (env.pc = "close_running" /\ env'.pc = "close_stop")
                => is_running]_vars

\* a close() after an earlier close() has returned, having stopped a run
\* that was started in between
C28_Witness ==
    /\ env.pc = "idle"
    /\ env_out.op = "close"
    /\ env_out.exc = ""
    /\ env_out.result.again
    /\ env_out.result.stopped
    /\ ~is_running

\* C29: in round_robin mode the k-th reset of the wrapper (k = 0, 1, ...)
\* sets the wrapped adapter's scenario to scenarios[k mod n] and enters the
\* wrapped reset() with it.
C29_RoundRobin ==
    [][(wrapper.mode = "round_robin"
          /\ wrapper'.episode_count = wrapper.episode_count + 1)
          => /\ env'.scenario
                  = At(wrapper.scenarios,
                       wrapper.episode_count % Len(wrapper.scenarios))
             /\ env'.pc = "reset_running"]_vars

\* the fifth reset has gone round the list of four and is back at the first
\* scenario
C29_Witness ==
    /\ wrapper.mode = "round_robin"
    /\ wrapper.episode_count = 5
    /\ env.scenario = "light"
    /\ env.pc = "reset_running"

C31_BoundedHistory ==
    /\ [](LET n == Min(history.max_size, history.added - history.cleared_at)
          IN /\ Len(history.snapshots) <= history.max_size
             /\ history.snapshots = [k \in 1 .. n |-> history.added - n + k])
    /\ [][history_out' # history_out /\ history_out' # NoRet
             => LET size == Len(history.snapshots)
                    m == Min(history_out'.result.count, size)
                IN history_out'.result.snapshots
                      = SubSeq(history.snapshots, size - m + 1, size)]_vars

\* C32: get_intersections and convert_to_sumo for a network that is not in
\* the cache raise the not-found error, start no conversion and leave the
\* cache and the artifacts as they were; only a cached network is converted
\* or listed.
C32_UnknownNetwork ==
    [][/\ (cv.pc = "idle" /\ cv'.pc # "idle")
             => cv'.network_id \in DOMAIN network_cache
       /\ (OsmDone("get_intersections") /\ cv_out'.exc = "")
             => \E n \in DOMAIN network_cache :
                   cv_out'.result = network_cache[n]
       /\ ((OsmDone("get_intersections") \/ OsmDone("convert_to_sumo"))
              /\ cv_out'.exc = ErrNotInCache)
             => /\ cv.pc = "idle"
                /\ UNCHANGED <<network_cache, net_files, cv>>
       /\ (network_cache = EmptyDict /\ cv.pc = "idle"
              /\ (OsmDone("get_intersections") \/ OsmDone("convert_to_sumo")))
             => cv_out'.exc = ErrNotInCache]_vars

\* a conversion was refused for a network that is not cached although its
\* artifact lies in the networks directory
C32_Witness ==
    /\ cv_out = Raised("convert_to_sumo", ErrNotInCache)
    /\ network_cache = EmptyDict
    /\ net_files # EmptyDict
    /\ cv = CvIdle

\* C33: when stop_simulation has returned the registry is empty, no model is
\* loaded and is_ai_controlling is false for every light, so that a manual
\* phase request of the next run is never refused for a deployment of the
\* run before.
C33_StopClearsDeployments ==
    [][\A t \in Clients :
          (Done(t, "stop") /\ out'.ret.exc = "")
             => /\ deployments' = EmptyDict
                /\ loaded_model' = None
                /\ \A tl \in DeployTls : ~is_ai_controlling(tl)']_vars

\* C34: under every interleaving of a manual phase request with deploy and
\* toggle calls of other threads, the request's command reaches the engine
\* only at an instant when is_ai_controlling is false for its light.
C34_AtomicArbitration ==
    [][\A t \in Threads :
          (pc[t] = "set_phase_engine" /\ Done(t, "set_phase")
              /\ out'.ret.exc = "")
             => ~is_ai_controlling(call[t].tl_id)]_vars

\* C35: apply_ai_action sets a phase on the engine only if, at that moment,
\* its light has a deployment with ai_control_enabled true; a light that was
\* toggled off or undeployed is not actuated by the model.
C35_ExclusiveOwnership ==
    [][(ap.pc = "set_phase_body" /\ out'.ret.op = "apply"
           /\ out'.ret.exc = "")
          => is_ai_controlling(ap.tl_id)]_vars

\* C36: whenever no operation of the controller is under way, the engine's
\* connection is open exactly when the status is running or paused, also
\* after a launch or a close that raised; and start_simulation never launches
\* an engine while a connection of an earlier run is still open.
C36_EngineOwnership ==
    /\ [](lock = NoThread => (engine.open <=> Status \in {"running", "paused"}))
    /\ [][\A t \in Threads :
             (pc[t] = "start_launch" /\ pc'[t] = "idle") => ~engine.open]_vars

\* C37: in every reachable state is_paused is set only while is_running is,
\* and a controller that is not running has current_step 0 and no
\* network_id; get_status on a controller without a run reports idle, step 0
\* and no network.
C37_StateInvariant ==
    /\ [](/\ is_paused => is_running
          /\ ~is_running => /\ current_step = 0
                            /\ network_id = None
                            /\ Status = "idle")
    /\ [][\A t \in Threads :
             (Done(t, "get_status") /\ ~is_running)
                => /\ out'.ret.result.status = "idle"
                   /\ out'.ret.result.step = 0
                   /\ out'.ret.result.network_id = None]_vars

\* a run has ended (its connection is still there, the close having raised)
\* and get_status has reported the idle controller
C37_Witness ==
    /\ out.ret.op = "get_status"
    /\ out.ret.exc = ""
    /\ out.ret.result.status = "idle"
    /\ out.ret.result.step = 0
    /\ engine.open
    /\ ~is_running

\* C38: whenever no operation holds the registry, the model in the inference
\* slot is the model recorded in the deployment of every deployed light, and
\* apply_ai_action on a deployed light predicts with the model of that
\* light's own deployment.
C38_SlotConsistency ==
    /\ [](dep_lock = NoThread
             => \A tl \in DOMAIN deployments :
                   deployments[tl].model_path = loaded_model)
    /\ [][(ap.pc = "predict" /\ ap'.pc = "set_phase_lock"
              /\ ap.tl_id \in DOMAIN deployments)
             => deployments[ap.tl_id].model_path = loaded_model]_vars

\* C39: the event stream leaves its loop, to send the stopped event and end,
\* only when the simulation is no longer running, also when a pause comes in
\* between the stream's paused-check and its step call; a heartbeat is sent
\* only for a paused simulation, and the stream's step never ticks the engine
\* of a paused simulation.
C39_StreamTermination ==
    [][/\ (stream.pc # "stopped" /\ stream'.pc = "stopped") => ~is_running
       /\ (stream.pc = "if_paused" /\ stream'.event = "heartbeat") => is_paused
       /\ (pc[Streamer] = "step_tick" /\ pc'[Streamer] # "step_tick")
             => ~is_paused]_vars

\* C40: at most one training thread is alive at any time; start_training is
\* accepted only when no training thread started before is still alive, also
\* after stop_training was requested and the job is still stopping; and the
\* stop flag, once set, stays set for as long as a training thread is alive.
C40_TrainingExclusivity ==
    /\ [](Cardinality({k \in Trainers : Alive(k)}) <= 1)
    /\ [][/\ (training_out'.op = "start_training" /\ training_out'.exc = "")
                => \A k \in Trainers : ~Alive(k)
          /\ (training.stop_flag /\ ~training'.stop_flag)
                => \A k \in Trainers : ~Alive(k)]_vars

====
